---- MODULE Spec2Model ----
(***************************************************************************)
(* Evergreen: the ingestion pipeline (parser, chunker, orchestrator) and   *)
(* the tenant-scoped vector and graph stores.                              *)
(*                                                                         *)
(* Text is a sequence of one-character strings.  The alphabet of the       *)
(* model is  a  -  #  .  space  newline ; the regular expressions of the   *)
(* parser that need other characters ("<", "_", the words "Sent from my",  *)
(* "Regards", "On ... wrote:", ...) cannot match a text over it.           *)
(***************************************************************************)
EXTENDS Integers, Sequences, FiniteSets, TLC

\* ------------------------------------------------------------------------
\* Bounds of the model
\* ------------------------------------------------------------------------
MaxPieces == 3
MaxStoreCalls == 3
MaxBatch == 2
MaxConcurrent == 2
MaxProviderBatches == 2
MaxAttempts == 7
MaxPoints == 5
MaxTopK == 5
MaxHits == 3
MaxEntities == 3
MaxLogins == 2
MaxTicks == 2

\* ------------------------------------------------------------------------
\* Characters and text helpers (Python str / re primitives)
\* ------------------------------------------------------------------------
SP == " "
NL == "\n"

IsSpace(c) == c \in {SP, NL}

IsSentenceEnd(c) == c \in {".", "!", "?"}

StartsWith(s, p) == Len(s) >= Len(p) /\ SubSeq(s, 1, Len(p)) = p

Drop(s, n) == SubSeq(s, n + 1, Len(s))

RECURSIVE LStrip(_)
LStrip(s) == IF s # <<>> /\ IsSpace(Head(s)) THEN LStrip(Tail(s)) ELSE s

RECURSIVE RStrip(_)
RStrip(s) ==
    IF s # <<>> /\ IsSpace(s[Len(s)]) THEN RStrip(SubSeq(s, 1, Len(s) - 1)) ELSE s

Strip(s) == RStrip(LStrip(s))

\* str.split(sep): the pieces between the non-overlapping occurrences of sep,
\* found left to right; always at least one piece.
RECURSIVE SplitAcc(_, _, _)
SplitAcc(rest, sep, cur) ==
    IF rest = <<>> THEN <<cur>>
    ELSE IF StartsWith(rest, sep)
         THEN <<cur>> \o SplitAcc(Drop(rest, Len(sep)), sep, <<>>)
         ELSE SplitAcc(Tail(rest), sep, Append(cur, Head(rest)))

SplitStr(s, sep) == SplitAcc(s, sep, <<>>)

\* sep.join(parts)
RECURSIVE Join(_, _)
Join(parts, sep) ==
    IF parts = <<>> THEN <<>>
    ELSE IF Len(parts) = 1 THEN parts[1]
         ELSE parts[1] \o sep \o Join(Tail(parts), sep)

\* length of the run of character c at the head of s
RECURSIVE RunLen(_, _)
RunLen(s, c) == IF s # <<>> /\ Head(s) = c THEN 1 + RunLen(Tail(s), c) ELSE 0

\* length of the run of whitespace at the head of s
RECURSIVE SpaceRunLen(_)
SpaceRunLen(s) == IF s # <<>> /\ IsSpace(Head(s)) THEN 1 + SpaceRunLen(Tail(s)) ELSE 0

\* re.sub(c{minrun,}, repl, s)
RECURSIVE CollapseRuns(_, _, _, _)
CollapseRuns(s, c, minrun, repl) ==
    IF s = <<>> THEN <<>>
    ELSE LET r == RunLen(s, c) IN
         IF r >= minrun THEN repl \o CollapseRuns(Drop(s, r), c, minrun, repl)
         ELSE IF r > 0 THEN SubSeq(s, 1, r) \o CollapseRuns(Drop(s, r), c, minrun, repl)
         ELSE <<Head(s)>> \o CollapseRuns(Tail(s), c, minrun, repl)

\* str.split(): the maximal runs of non-whitespace characters
RECURSIVE WordsAcc(_, _)
WordsAcc(rest, cur) ==
    IF rest = <<>> THEN (IF cur = <<>> THEN <<>> ELSE <<cur>>)
    ELSE IF IsSpace(Head(rest))
         THEN (IF cur = <<>> THEN <<>> ELSE <<cur>>) \o WordsAcc(Tail(rest), <<>>)
         ELSE WordsAcc(Tail(rest), Append(cur, Head(rest)))

Words(text) == WordsAcc(text, <<>>)

\* [part.strip() for part in parts]
StripAll(parts) == [i \in 1..Len(parts) |-> Strip(parts[i])]

RECURSIVE SelectNonEmpty(_)
SelectNonEmpty(s) ==
    IF s = <<>> THEN <<>>
    ELSE IF Head(s) = <<>> THEN SelectNonEmpty(Tail(s))
         ELSE <<Head(s)>> \o SelectNonEmpty(Tail(s))

Min(a, b) == IF a <= b THEN a ELSE b

\* ------------------------------------------------------------------------
\* models.py
\* ------------------------------------------------------------------------
DataSource ==
    {"m365_email", "m365_file", "m365_teams", "m365_calendar",
     "google_email", "google_file", "google_calendar", "slack"}

EmailSources == {"m365_email", "google_email"}

ChatSources == {"m365_teams", "slack"}

\* ------------------------------------------------------------------------
\* ingestion/parser.py
\* ------------------------------------------------------------------------
\* "\n--\s*\n.*$" (DOTALL): a newline, "--", whitespace holding a newline,
\* and everything after it.  True when the pattern matches at the head of s.
SignatureAt(s) ==
    /\ StartsWith(s, <<NL, "-", "-">>)
    /\ LET after == Drop(s, 3)
           r == SpaceRunLen(after)
       IN \E k \in 1..r : after[k] = NL

RECURSIVE RemoveEmailSignature(_)
RemoveEmailSignature(text) ==
    IF text = <<>> THEN <<>>
    ELSE IF SignatureAt(text) THEN <<>>
         ELSE <<Head(text)>> \o RemoveEmailSignature(Tail(text))

\* the quote markers ("On ... wrote:", "Original Message", "From: ...") are
\* made of letters the alphabet does not have: nothing is cut
TrimQuotedReplies(text) == text

NormalizeWhitespace(text) ==
    LET t1 == CollapseRuns(text, NL, 3, <<NL, NL>>)
        t2 == CollapseRuns(t1, SP, 2, <<SP>>)
        lines == StripAll(SplitStr(t2, <<NL>>))
    IN Strip(Join(lines, <<NL>>))

\* every pattern of _is_html needs "<", which the alphabet does not have:
\* the html2text branch is never taken
ParseEmail(body) ==
    NormalizeWhitespace(TrimQuotedReplies(RemoveEmailSignature(body)))

ParseChat(body) == NormalizeWhitespace(body)

ParseGeneric(body) == NormalizeWhitespace(body)

\* DocumentParser.parse: the body replaced, every other field kept
Parse(document) ==
    LET cleaned_body ==
            IF document.source \in EmailSources THEN ParseEmail(document.body)
            ELSE IF document.source \in ChatSources THEN ParseChat(document.body)
            ELSE ParseGeneric(document.body)
    IN [document EXCEPT !.body = cleaned_body]

\* ------------------------------------------------------------------------
\* ingestion/chunker.py
\* ------------------------------------------------------------------------
ChunkingConfig(max_tokens, overlap_tokens) ==
    [max_tokens |-> max_tokens, overlap_tokens |-> overlap_tokens]

DEFAULT_CONFIGS ==
    [s \in DataSource |->
        CASE s \in {"m365_email", "google_email"} -> ChunkingConfig(512, 50)
          [] s \in {"m365_teams", "slack"} -> ChunkingConfig(256, 0)
          [] s \in {"m365_file", "google_file"} -> ChunkingConfig(1024, 100)
          [] OTHER -> ChunkingConfig(512, 50)]

\* the value of SemanticChunker._default_config when no configuration is given
NoConfig == [max_tokens |-> -1, overlap_tokens |-> -1]

EstimateTokens(text) == Len(text) \div 4

\* _create_chunk; origin records which branch of the chunker built the
\* content: "whole", "packed", "section" or "window"
CreateChunk(document, content, token_count, origin) ==
    [document_id |-> document.id, tenant_id |-> document.tenant_id,
     content |-> content, token_count |-> token_count, origin |-> origin]

\* the while loop of _split_long_text from window start i.  The loop
\* leaves i where it is, or moves it back, when end < len(words) and
\* overlap_words >= words_per_chunk: it then never ends.
RECURSIVE SplitLoop(_, _, _, _)
SplitLoop(words, i, words_per_chunk, overlap_words) ==
    IF i >= Len(words) THEN [diverges |-> FALSE, segs |-> <<>>]
    ELSE LET end == Min(i + words_per_chunk, Len(words))
             seg == Join(SubSeq(words, i + 1, end), <<SP>>)
             next == IF end < Len(words) THEN end - overlap_words ELSE end
         IN IF next <= i THEN [diverges |-> TRUE, segs |-> <<>>]
            ELSE LET rest == SplitLoop(words, next, words_per_chunk, overlap_words)
                 IN [diverges |-> rest.diverges, segs |-> <<seg>> \o rest.segs]

SplitLongText(text, max_tokens, overlap_tokens) ==
    SplitLoop(Words(text), 0, (max_tokens * 3) \div 4, (overlap_tokens * 3) \div 4)

WindowChunks(document, segs) ==
    [k \in 1..Len(segs) |-> CreateChunk(document, segs[k], EstimateTokens(segs[k]), "window")]

Flush(document, current_chunk, current_tokens) ==
    IF current_chunk # <<>>
    THEN <<CreateChunk(document, current_chunk, current_tokens, "packed")>>
    ELSE <<>>

\* the for loop of _chunk_email over the paragraphs not yet seen
RECURSIVE PackParagraphs(_, _, _, _, _)
PackParagraphs(document, config, paragraphs, current_chunk, current_tokens) ==
    IF paragraphs = <<>>
    THEN [diverges |-> FALSE, chunks |-> Flush(document, current_chunk, current_tokens)]
    ELSE LET para == Head(paragraphs)
             para_tokens == EstimateTokens(para)
         IN IF current_tokens + para_tokens <= config.max_tokens
            THEN PackParagraphs(document, config, Tail(paragraphs),
                     current_chunk \o (IF current_chunk # <<>> THEN <<NL, NL>> ELSE <<>>) \o para,
                     current_tokens + para_tokens)
            ELSE IF para_tokens > config.max_tokens
                 THEN LET sub == SplitLongText(para, config.max_tokens, config.overlap_tokens)
                          rest == PackParagraphs(document, config, Tail(paragraphs), <<>>, 0)
                      IN [diverges |-> sub.diverges \/ rest.diverges,
                          chunks |-> Flush(document, current_chunk, current_tokens)
                                     \o WindowChunks(document, sub.segs) \o rest.chunks]
                 ELSE LET rest == PackParagraphs(document, config, Tail(paragraphs),
                                                 para, para_tokens)
                      IN [diverges |-> rest.diverges,
                          chunks |-> Flush(document, current_chunk, current_tokens)
                                     \o rest.chunks]

WholeChunk(document) ==
    [diverges |-> FALSE,
     chunks |-> <<CreateChunk(document, document.body, EstimateTokens(document.body), "whole")>>]

ChunkEmail(document, config) ==
    IF EstimateTokens(document.body) <= config.max_tokens
    THEN WholeChunk(document)
    ELSE PackParagraphs(document, config, SplitStr(document.body, <<NL, NL>>), <<>>, 0)

\* re.split(r'(?<=[.!?])\s+', text): cut out every run of whitespace that
\* follows a sentence end
RECURSIVE SentencesAcc(_, _)
SentencesAcc(rest, cur) ==
    IF rest = <<>> THEN <<cur>>
    ELSE IF cur # <<>> /\ IsSentenceEnd(cur[Len(cur)]) /\ IsSpace(Head(rest))
         THEN <<cur>> \o SentencesAcc(Drop(rest, SpaceRunLen(rest)), <<>>)
         ELSE SentencesAcc(Tail(rest), Append(cur, Head(rest)))

SplitSentences(text) == SentencesAcc(text, <<>>)

\* the for loop of _split_at_sentences over the sentences not yet seen
RECURSIVE PackSentences(_, _, _, _, _)
PackSentences(document, config, sentences, current_chunk, current_tokens) ==
    IF sentences = <<>>
    THEN Flush(document, current_chunk, current_tokens)
    ELSE LET sentence == Head(sentences)
             sentence_tokens == EstimateTokens(sentence)
         IN IF current_tokens + sentence_tokens <= config.max_tokens
            THEN PackSentences(document, config, Tail(sentences),
                     current_chunk \o (IF current_chunk # <<>> THEN <<SP>> ELSE <<>>) \o sentence,
                     current_tokens + sentence_tokens)
            ELSE Flush(document, current_chunk, current_tokens)
                 \o PackSentences(document, config, Tail(sentences), sentence, sentence_tokens)

SplitAtSentences(document, text, config) ==
    [diverges |-> FALSE,
     chunks |-> PackSentences(document, config, SplitSentences(text), <<>>, 0)]

ChunkChat(document, config) ==
    IF EstimateTokens(document.body) <= config.max_tokens
    THEN WholeChunk(document)
    ELSE SplitAtSentences(document, document.body, config)

\* "\n(?=#{1,6}\s)": a newline followed by one to six "#" and a whitespace
HeaderAt(s) ==
    /\ s # <<>> /\ Head(s) = NL
    /\ LET r == RunLen(Tail(s), "#")
       IN r >= 1 /\ r <= 6 /\ Len(s) >= r + 2 /\ IsSpace(s[r + 2])

RECURSIVE HeaderSplitAcc(_, _)
HeaderSplitAcc(rest, cur) ==
    IF rest = <<>> THEN <<cur>>
    ELSE IF HeaderAt(rest) THEN <<cur>> \o HeaderSplitAcc(Tail(rest), <<>>)
         ELSE HeaderSplitAcc(Tail(rest), Append(cur, Head(rest)))

SplitAtHeaders(text) == SelectNonEmpty(StripAll(HeaderSplitAcc(text, <<>>)))

\* the for loop of _chunk_generic over the sections not yet seen
RECURSIVE ChunkSections(_, _, _)
ChunkSections(document, config, sections) ==
    IF sections = <<>> THEN [diverges |-> FALSE, chunks |-> <<>>]
    ELSE LET section == Head(sections)
             section_tokens == EstimateTokens(section)
             rest == ChunkSections(document, config, Tail(sections))
         IN IF section_tokens <= config.max_tokens
            THEN [diverges |-> rest.diverges,
                  chunks |-> <<CreateChunk(document, section, section_tokens, "section")>>
                             \o rest.chunks]
            ELSE LET sub == SplitLongText(section, config.max_tokens, config.overlap_tokens)
                 IN [diverges |-> sub.diverges \/ rest.diverges,
                     chunks |-> WindowChunks(document, sub.segs) \o rest.chunks]

ChunkGeneric(document, config) ==
    IF EstimateTokens(document.body) <= config.max_tokens
    THEN WholeChunk(document)
    ELSE LET sections == SplitAtHeaders(document.body)
         IN IF Len(sections) > 1
            THEN ChunkSections(document, config, sections)
            ELSE ChunkEmail(document, config)

\* every chunk is created with chunk_index = len(chunks)
WithIndex(chunks) ==
    [k \in 1..Len(chunks) |->
        [document_id |-> chunks[k].document_id, tenant_id |-> chunks[k].tenant_id,
         content |-> chunks[k].content, token_count |-> chunks[k].token_count,
         origin |-> chunks[k].origin, chunk_index |-> k - 1]]

\* SemanticChunker.chunk
Chunk(document, default_config) ==
    LET config == IF default_config # NoConfig THEN default_config
                  ELSE DEFAULT_CONFIGS[document.source]
        r == IF document.source \in EmailSources THEN ChunkEmail(document, config)
             ELSE IF document.source \in ChatSources THEN ChunkChat(document, config)
             ELSE ChunkGeneric(document, config)
    IN [diverges |-> r.diverges,
        chunks |-> IF r.diverges THEN <<>> ELSE WithIndex(r.chunks)]


\* ------------------------------------------------------------------------
\* storage/vector.py (the Qdrant server holds a set of named collections,
\* each a set of points keyed by point id)
\* ------------------------------------------------------------------------
\* a store that keeps every tenant in one collection
CollectionNameShared(tenant_id) == "evergreen"

CollectionName(tenant_id) == "evergreen_" \o tenant_id

\* client.create_collection: a new, empty collection
CreateCollection(colls, name) ==
    [n \in (DOMAIN colls) \cup {name} |-> IF n = name THEN {} ELSE colls[n]]

\* the PointStruct built by upsert for one (chunk, embedding) pair;
\* written_under records the tenant_id the call was made with
Point(tenant_id, pair) ==
    [id |-> pair.chunk.id, vector |-> pair.embedding,
     document_id |-> pair.chunk.document_id, tenant_id |-> pair.chunk.tenant_id,
     chunk_index |-> pair.chunk.chunk_index, content |-> pair.chunk.content,
     written_under |-> tenant_id]

\* the points list of upsert; a later pair with the same id wins
Points(tenant_id, pairs) ==
    {Point(tenant_id, pairs[k]) : k \in {j \in 1..Len(pairs) :
        \A l \in (j + 1)..Len(pairs) : pairs[l].chunk.id # pairs[j].chunk.id}}

\* client.upsert: insert, or overwrite the point that has the same id
UpsertPoints(colls, name, points) ==
    [colls EXCEPT ![name] = {q \in @ : \A p \in points : p.id # q.id} \cup points]

\* ensure_collection followed by client.upsert, with no other call between
UpsertAll(colls, tenant_id, pairs) ==
    LET name == CollectionName(tenant_id)
        ensured == IF name \in DOMAIN colls THEN colls ELSE CreateCollection(colls, name)
    IN IF pairs = <<>> THEN colls
       ELSE UpsertPoints(ensured, name, Points(tenant_id, pairs))

NoFilter == [field |-> "none", value |-> "none"]

\* Filter(must=[FieldCondition(key, MatchValue)]) on the payload
MatchesFilter(point, filter) ==
    \/ filter = NoFilter
    \/ filter.field = "document_id" /\ point.document_id = filter.value

\* the result dict search builds from one scored point
SearchHit(point) ==
    [id |-> point.id, content |-> point.content, document_id |-> point.document_id,
     written_under |-> point.written_under]

\* the answers client.search may give: at most limit matching points of the
\* tenant's collection (the index is approximate, any of them may be left out)
SearchResults(colls, tenant_id, limit, filter) ==
    LET name == CollectionName(tenant_id)
        matching == {p \in colls[name] : MatchesFilter(p, filter)}
    IN {{SearchHit(p) : p \in chosen} :
            chosen \in {c \in SUBSET matching :
                           Cardinality(c) = Min(limit, Cardinality(matching))}}

\* ------------------------------------------------------------------------
\* storage/graph.py (the FalkorDB server holds a set of named graphs; a
\* graph that was never written reads as empty)
\* ------------------------------------------------------------------------
GraphName(tenant_id) == "evergreen_" \o tenant_id

Null == -1

Coalesce(v, default) == IF v = Null THEN default ELSE v

EmptyGraph == [nodes |-> {}, documents |-> {}, links |-> {}]

GetGraph(gs, tenant_id) ==
    IF GraphName(tenant_id) \in DOMAIN gs THEN gs[GraphName(tenant_id)] ELSE EmptyGraph

PutGraph(gs, tenant_id, g) ==
    [n \in (DOMAIN gs) \cup {GraphName(tenant_id)} |->
        IF n = GraphName(tenant_id) THEN g ELSE gs[n]]

\* CREATE in place of MERGE: a node for every call
MergeEntityAlwaysCreate(g, tenant_id, entity) ==
    [g EXCEPT !.nodes = @ \cup
        {[id |-> entity.id, name |-> entity.name, type |-> entity.type,
          tenant_id |-> entity.tenant_id, mention_count |-> Null,
          written_under |-> tenant_id]}]

\* MERGE (e:Entity {name, type}) ON CREATE SET e += props
\*                                ON MATCH SET e.mention_count = COALESCE(e.mention_count, 0) + 1
\* props has id, name, type and tenant_id, and no mention_count
MergeEntity(g, tenant_id, entity) ==
    LET matched == {n \in g.nodes : n.name = entity.name /\ n.type = entity.type}
    IN IF matched = {}
       THEN [g EXCEPT !.nodes = @ \cup
                {[id |-> entity.id, name |-> entity.name, type |-> entity.type,
                  tenant_id |-> entity.tenant_id, mention_count |-> Null,
                  written_under |-> tenant_id]}]
       ELSE [g EXCEPT !.nodes = (@ \ matched) \cup
                {[n EXCEPT !.mention_count = Coalesce(@, 0) + 1] : n \in matched}]

\* GraphStore.create_entity: the graphs after the call
CreateEntity(gs, tenant_id, entity) ==
    PutGraph(gs, tenant_id, MergeEntity(GetGraph(gs, tenant_id), tenant_id, entity))

\* the value create_entity returns
CreateEntityReturn(entity) == entity.id

\* the number of MENTIONED_IN edges from node n to document d
EdgeCount(g, name, type, document_id) ==
    LET es == {e \in g.links : e.name = name /\ e.type = type /\ e.document_id = document_id}
    IN IF es = {} THEN 0 ELSE (CHOOSE e \in es : TRUE).count

\* MERGE (d:Document {id}); MATCH (e:Entity {id}), (d) CREATE (e)-[:MENTIONED_IN]->(d)
LinkEntity(g, entity_id, document_id) ==
    LET matched == {n \in g.nodes : n.id = entity_id}
        touched == {e \in g.links : e.document_id = document_id /\
                        \E n \in matched : n.name = e.name /\ n.type = e.type}
    IN [g EXCEPT !.documents = @ \cup {document_id},
                 !.links = (@ \ touched) \cup
                    {[name |-> n.name, type |-> n.type, document_id |-> document_id,
                      count |-> EdgeCount(g, n.name, n.type, document_id) + 1] : n \in matched}]

\* GraphStore.link_entity_to_document: the graphs after the call
LinkEntityToDocument(gs, tenant_id, entity_id, document_id) ==
    PutGraph(gs, tenant_id, LinkEntity(GetGraph(gs, tenant_id), entity_id, document_id))

\* s CONTAINS pattern
RECURSIVE Contains(_, _)
Contains(s, pattern) ==
    \/ StartsWith(s, pattern)
    \/ s # <<>> /\ Contains(Tail(s), pattern)

AnyType == "any"

EntityRow(n) ==
    [id |-> n.id, name |-> n.name, type |-> n.type, written_under |-> n.written_under]

\* the answers find_entities_by_name may give: at most limit matching nodes
FindEntitiesByName(gs, tenant_id, name_pattern, entity_type, limit) ==
    LET g == GetGraph(gs, tenant_id)
        matching == {n \in g.nodes : /\ Contains(n.name, name_pattern)
                                     /\ entity_type \in {AnyType, n.type}}
    IN {{EntityRow(n) : n \in chosen} :
            chosen \in {c \in SUBSET matching :
                           Cardinality(c) = Min(limit, Cardinality(matching))}}

\* get_entity_documents: MATCH (e:Entity {id})-[:MENTIONED_IN]->(d) RETURN d.id
GetEntityDocuments(gs, tenant_id, entity_id) ==
    LET g == GetGraph(gs, tenant_id)
    IN {e.document_id : e \in {l \in g.links :
            \E n \in g.nodes : n.id = entity_id /\ n.name = l.name /\ n.type = l.type}}


\* ------------------------------------------------------------------------
\* ingestion/orchestrator.py
\* ------------------------------------------------------------------------
None == "None"

\* an exception raised by a pipeline component
Exc(stage, message) == [stage |-> stage, message |-> message]

NoExc == Exc("none", None)

\* str(e)
Str(e) == e.message

\* the IndexedDocument of the success path
IndexedRecord(document, chunk_ids, entity_ids) ==
    [id |-> document.id, tenant_id |-> document.tenant_id, source |-> document.source,
     source_id |-> document.source_id, status |-> "indexed",
     chunk_ids |-> chunk_ids, entity_ids |-> entity_ids,
     indexed_at |-> "utcnow", error_message |-> None]

\* an except branch that keeps no message
FailedRecordNoMessage(document, e) ==
    [id |-> document.id, tenant_id |-> document.tenant_id, source |-> document.source,
     source_id |-> document.source_id, status |-> "failed",
     chunk_ids |-> << >>, entity_ids |-> << >>,
     indexed_at |-> None, error_message |-> None]

\* the IndexedDocument of the except branch
FailedRecord(document, e) ==
    [id |-> document.id, tenant_id |-> document.tenant_id, source |-> document.source,
     source_id |-> document.source_id, status |-> "failed",
     chunk_ids |-> << >>, entity_ids |-> << >>,
     indexed_at |-> None, error_message |-> Str(e)]

\* how a call of ingest ends: it returns value, or it raises
IngestReturn(value) == [raises |-> FALSE, value |-> value]

\* an except branch that logs and lets the exception go on
IngestExceptReraise(document, e) == [raises |-> TRUE, value |-> FailedRecord(document, e)]

\* the except branch of ingest
IngestExcept(document, e) == IngestReturn(FailedRecord(document, e))

NoOutcome == [raises |-> FALSE, value |-> FailedRecord(
                 [id |-> None, tenant_id |-> None, source |-> None, source_id |-> None], NoExc)]

\* uuid4(): a value no other call site and no other call ever gets
Uuid4(call, kind, k) == <<call, kind, k>>

\* the chunks of chunker.chunk with the ids DocumentChunk gives them
WithIds(call, chunks) ==
    [k \in 1..Len(chunks) |->
        [id |-> Uuid4(call, "chunk", k), document_id |-> chunks[k].document_id,
         tenant_id |-> chunks[k].tenant_id, content |-> chunks[k].content,
         chunk_index |-> chunks[k].chunk_index, token_count |-> chunks[k].token_count]]

\* the Entity list the orchestrator's extractor (a constructor argument)
\* returns for a chunk when its extract_from_chunk returns: its recogniser
\* finds one person in every chunk that has a 7-letter word
ChunkEntities(call, k, chunk) ==
    IF \E w \in {Words(chunk.content)[j] : j \in 1..Len(Words(chunk.content))} : Len(w) = 7
    THEN <<[id |-> Uuid4(call, "entity", k), tenant_id |-> chunk.tenant_id,
            name |-> <<"A", "l">>, type |-> "person"]>>
    ELSE << >>

\* the vector the provider gives for a text
Embedding(text) == <<"vector", text>>

\* embed_chunks: list(zip(chunks, embeddings))
EmbedChunks(chunks) ==
    [k \in 1..Len(chunks) |-> [chunk |-> chunks[k], embedding |-> Embedding(chunks[k].content)]]

\* ------------------------------------------------------------------------
\* storage/embeddings.py: EmbeddingGenerator
\* ------------------------------------------------------------------------
MAX_BATCH_SIZE == 128

\* @retry(stop=stop_after_attempt(5), wait=wait_exponential(multiplier=1,
\* min=2, max=60))
stop_after_attempt == 5

wait_multiplier == 1

wait_min == 2

wait_max == 60

Max(a, b) == IF a >= b THEN a ELSE b

\* result.embeddings of one provider call: one vector per text, in order
ProviderEmbed(texts) == [k \in 1..Len(texts) |-> Embedding(texts[k])]

\* texts[i:i + MAX_BATCH_SIZE]
BatchAt(texts, i) == SubSeq(texts, i + 1, Min(i + MAX_BATCH_SIZE, Len(texts)))

\* a loop that puts each batch in front of the earlier ones
PrependEmbeddings(all_embeddings, batch_embeddings) == batch_embeddings \o all_embeddings

\* all_embeddings.extend(batch_embeddings)
ExtendEmbeddings(all_embeddings, batch_embeddings) == all_embeddings \o batch_embeddings

\* list(zip(chunks, embeddings))
Zip(chunks, embeddings) ==
    [k \in 1..Min(Len(chunks), Len(embeddings)) |->
        [chunk |-> chunks[k], embedding |-> embeddings[k]]]

\* tenacity's default retry condition, retry_if_exception_type(): every
\* Exception that leaves the function is retried; both except branches of
\* _embed_batch re-raise
RetryIf(error) == error \in {"rate_limit", "other"}

\* a stop condition that never stops
StopNever(attempt_number) == FALSE

\* stop_after_attempt(5)
ShouldStop(attempt_number) == attempt_number >= stop_after_attempt

\* wait_exponential: multiplier * 2 ** (attempt_number - 1), kept
\* between min and max
WaitExponential(attempt_number) ==
    Max(wait_min, Min(wait_multiplier * 2 ^ (attempt_number - 1), wait_max))

NoStop == [at |-> "none", k |-> 0]

\* where the graph stage of ingest may be stopped by an exception
FailurePoints(n) ==
    {NoStop, [at |-> "ensure_schema", k |-> 0]}
        \cup {[at |-> a, k |-> kk] : a \in {"create_entity", "link"}, kk \in 1..n}

\* a graph stage in one transaction: a call that raises takes back the
\* writes made before it
RECURSIVE GraphWritesRolledBack(_, _, _, _, _, _)
GraphWritesRolledBack(gs, tenant_id, document_id, all_entities, k, stop) ==
    IF stop # NoStop \/ k > Len(all_entities) THEN gs
    ELSE GraphWritesRolledBack(
             LinkEntityToDocument(CreateEntity(gs, tenant_id, all_entities[k]), tenant_id,
                                  CreateEntityReturn(all_entities[k]), document_id),
             tenant_id, document_id, all_entities, k + 1, stop)

\* the loop "for entity in all_entities" from entity k on, until it ends
\* or the call named by stop raises
RECURSIVE GraphWrites(_, _, _, _, _, _)
GraphWrites(gs, tenant_id, document_id, all_entities, k, stop) ==
    IF k > Len(all_entities) \/ stop = [at |-> "create_entity", k |-> k] THEN gs
    ELSE LET created == CreateEntity(gs, tenant_id, all_entities[k])
             entity_id == CreateEntityReturn(all_entities[k])
         IN IF stop = [at |-> "link", k |-> k] THEN created
            ELSE GraphWrites(LinkEntityToDocument(created, tenant_id, entity_id, document_id),
                             tenant_id, document_id, all_entities, k + 1, stop)

\* a gather that hands the results back as the calls complete
GatherCompletionOrder(outcomes, order) ==
    [k \in 1..Len(order) |-> outcomes[order[k]].value]

\* asyncio.gather: the results in the order of the awaitables
Gather(outcomes, order) ==
    [k \in 1..Len(outcomes) |-> outcomes[k].value]

\* asyncio.Semaphore.acquire goes through without waiting
CanAcquireAlways(value) == TRUE

CanAcquire(value) == value > 0


\* ------------------------------------------------------------------------
\* retrieval/engine.py: RetrievalEngine.  Confidence is in tenths.  An
\* answer is a sequence of pieces of text; the pieces of the model are the
\* units that lower() and the "in" test work on.
\* ------------------------------------------------------------------------
confidence_cap == 9

confidence_base == 5

confidence_per_source == 1

confidence_insufficient == 3

confidence_failed == 2

confidence_none == 0

NoInfoAnswer == <<"I couldn't find relevant information to answer your question.">>

ApologyAnswer ==
    <<"I found relevant information but had trouble summarizing it. Please try again.">>

\* str.lower() of one piece
LowerPiece(piece) ==
    CASE piece = "I " -> "i "
      [] piece = "Revenue grew " -> "revenue grew "
      [] piece = "Don't Have Enough" -> "don't have enough"
      [] piece = "Cannot Find" -> "cannot find"
      [] OTHER -> piece

\* answer.lower()
Lower(answer) == [k \in 1..Len(answer) |-> LowerPiece(answer[k])]

\* phrase in text
InText(phrase, text) == \E k \in 1..Len(text) : text[k] = phrase

\* results[:n]
Take(results, n) == SubSeq(results, 1, Min(n, Len(results)))

\* the hits of client.search in the order of their score; the points of
\* the model score in the order of their ids
RECURSIVE SortHits(_)
SortHits(hits) ==
    IF hits = {} THEN << >>
    ELSE LET best == CHOOSE h \in hits : \A g \in hits : h.id <= g.id
         IN <<best>> \o SortHits(hits \ {best})

\* rerank_response.results as lists of item.index (counted from 1): at
\* most top_n items, in the order given or in the opposite order
RerankResponses(n, top_n) ==
    {[k \in 1..Min(n, top_n) |-> k], [k \in 1..Min(n, top_n) |-> n + 1 - k]}

\* the reranked list: a copy of results[item.index] with its rerank_score
Reranked(results, response) ==
    [k \in 1..Len(response) |->
        [f \in (DOMAIN results[response[k]]) \cup {"rerank_score"} |->
            IF f = "rerank_score" THEN Len(response) - k
            ELSE results[response[k]][f]]]

\* a set of rows as a list, in the order the server gives them
RECURSIVE RowList(_)
RowList(rows) ==
    IF rows = {} THEN << >>
    ELSE LET r == CHOOSE x \in rows : TRUE IN <<r>> \o RowList(rows \ {r})

\* _augment_with_graph: one find_entities_by_name(tenant_id, "", limit=10)
\* per document id; a call that raises adds nothing, and an entity id is
\* added once
AugmentWithGraph(doc_ids, failing, rows) ==
    IF doc_ids \subseteq failing THEN << >> ELSE RowList(rows)

\* a confidence without the cap
SynthConfidenceUncapped(n, answer) ==
    IF InText("don't have enough", Lower(answer)) \/ InText("cannot find", Lower(answer))
    THEN confidence_insufficient
    ELSE confidence_base + confidence_per_source * n

\* min(0.9, 0.5 + 0.1 * len(sources)), 0.3 for an answer that says it
\* lacks information
SynthConfidence(n, answer) ==
    IF InText("don't have enough", Lower(answer)) \/ InText("cannot find", Lower(answer))
    THEN confidence_insufficient
    ELSE Min(confidence_cap, confidence_base + confidence_per_source * n)

\* _synthesize_answer with no source
SynthesizeNoSources ==
    [answer |-> NoInfoAnswer, reasoning |-> None, confidence |-> confidence_none]

\* _synthesize_answer when the LLM answered
SynthesizeOk(sources, answer) ==
    [answer |-> answer, reasoning |-> None,
     confidence |-> SynthConfidence(Len(sources), answer)]

\* an except branch as confident as an answer that lacks information
SynthesizeExceptAsInsufficient(e) ==
    [answer |-> ApologyAnswer, reasoning |-> Str(e), confidence |-> confidence_insufficient]

\* _synthesize_answer when the LLM call raised
SynthesizeExcept(e) ==
    [answer |-> ApologyAnswer, reasoning |-> Str(e), confidence |-> confidence_failed]

\* synthesize=False
NoSynthesis == [answer |-> << >>, reasoning |-> None, confidence |-> confidence_none]

QueryResult(synth, sources, entities) ==
    [answer |-> synth.answer, sources |-> sources, entities |-> entities,
     confidence |-> synth.confidence, reasoning |-> synth.reasoning]

\* ------------------------------------------------------------------------
\* extraction/extractor.py and the pydantic models it builds.  A Python
\* value that may be a UUID or a str carries its type.
\* ------------------------------------------------------------------------
EntityType == {"person", "organization", "project", "topic", "date", "location"}

DEFAULT_ENTITY_TYPES ==
    {"person", "organization", "location", "product", "project", "technology",
     "date", "money", "email", "phone"}

BUSINESS_ENTITY_TYPES ==
    {"customer", "vendor", "contract", "meeting", "deadline", "department", "role"}

co_occurrence_confidence == 3

PyUUID(value) == [py |-> "UUID", value |-> value]

PyStr(value) == [py |-> "str", value |-> value]

\* str.lower() of one character
LowerChar(c) ==
    CASE c = "A" -> "a"
      [] c = "B" -> "b"
      [] OTHER -> c

\* raw["text"].lower()
LowerText(text) == [k \in 1..Len(text) |-> LowerChar(text[k])]

\* pydantic validation of Entity(**kwargs): id is a str field, type an
\* EntityType, tenant_id, type and name are required
ValidEntity(kwargs) ==
    /\ {"tenant_id", "type", "name"} \subseteq DOMAIN kwargs
    /\ "id" \in DOMAIN kwargs => kwargs.id.py = "str"
    /\ kwargs.type \in EntityType

\* pydantic validation of EntityMention(**kwargs): all six fields are
\* required, keywords that are no field are ignored
ValidEntityMention(kwargs) ==
    /\ {"entity_id", "document_id", "chunk_id", "start_char", "end_char", "context"}
          \subseteq DOMAIN kwargs
    /\ kwargs.entity_id.py = "str"

\* pydantic validation of Relationship(**kwargs)
ValidRelationship(kwargs) ==
    /\ {"tenant_id", "source_entity_id", "target_entity_id", "relationship_type"}
          \subseteq DOMAIN kwargs
    /\ "id" \in DOMAIN kwargs => kwargs.id.py = "str"

\* the key (raw["text"].lower(), raw["type"])
HitKey(raw) == [text |-> LowerText(raw.text), type |-> raw.type]

\* Entity(id=uuid4(), tenant_id=chunk.tenant_id, name=raw["text"], type=raw["type"], ...)
EntityKwargs(chunk, raw, k) ==
    [id |-> PyUUID(Uuid4(chunk.id, "entity", k)), tenant_id |-> chunk.tenant_id,
     name |-> raw.text, type |-> raw.type,
     metadata |-> [first_seen_document |-> chunk.document_id, confidence |-> raw.confidence]]

\* EntityMention(entity_id=..., document_id=..., chunk_id=..., text=...,
\* start_position=..., end_position=..., confidence=...)
MentionKwargs(chunk, raw, entity) ==
    [entity_id |-> entity.id, document_id |-> chunk.document_id, chunk_id |-> PyStr(chunk.id),
     text |-> raw.text, start_position |-> raw.start, end_position |-> raw.end,
     confidence |-> raw.confidence]

\* the loop "for raw in raw_entities" of extract_from_chunk from hit k on;
\* entity_map is the set of (key, entity) entries; a model that does not
\* validate raises ValidationError
RECURSIVE ExtractLoop(_, _, _, _, _, _)
ExtractLoop(chunk, raw_entities, k, entities, mentions, entity_map) ==
    IF k > Len(raw_entities)
    THEN [raises |-> FALSE, entities |-> entities, mentions |-> mentions]
    ELSE LET raw == raw_entities[k]
             key == HitKey(raw)
             known == {m \in entity_map : m.key = key}
             kwargs == EntityKwargs(chunk, raw, k)
         IN IF known = {} /\ ~ValidEntity(kwargs)
            THEN [raises |-> TRUE, entities |-> entities, mentions |-> mentions]
            ELSE LET entity == IF known = {} THEN kwargs
                               ELSE (CHOOSE m \in known : TRUE).entity
                     entities1 == IF known = {} THEN Append(entities, entity) ELSE entities
                     map1 == entity_map \cup {[key |-> key, entity |-> entity]}
                     mention == MentionKwargs(chunk, raw, entity)
                 IN IF ~ValidEntityMention(mention)
                    THEN [raises |-> TRUE, entities |-> entities1, mentions |-> mentions]
                    ELSE ExtractLoop(chunk, raw_entities, k + 1, entities1,
                                     Append(mentions, mention), map1)

\* extract_from_chunk(chunk) when extract gives raw_entities
ExtractFromChunk(chunk, raw_entities) ==
    ExtractLoop(chunk, raw_entities, 1, << >>, << >>, {})

\* the (i, j) of "for i, source in enumerate(entities): for target in
\* entities[i+1:]", in loop order
RECURSIVE PairsFrom(_, _, _)
PairsFrom(n, i, j) ==
    IF i > n THEN << >>
    ELSE IF j > n THEN PairsFrom(n, i + 1, i + 2)
    ELSE <<[i |-> i, j |-> j]>> \o PairsFrom(n, i, j + 1)

\* Relationship(id=uuid4(), source_entity_id=..., target_entity_id=...,
\* relation_type="co_occurs_with", confidence=0.3, metadata=...)
RelationshipKwargs(source, target, k) ==
    [id |-> PyUUID(Uuid4("relationships", "relationship", k)),
     source_entity_id |-> source.id, target_entity_id |-> target.id,
     relation_type |-> "co_occurs_with", confidence |-> co_occurrence_confidence,
     metadata |-> [extraction_method |-> "co_occurrence"]]

\* extract_relationships(text, entities)
ExtractRelationships(use_llm_fallback, entities) ==
    IF ~use_llm_fallback \/ Len(entities) < 2
    THEN [raises |-> FALSE, relationships |-> << >>]
    ELSE LET pairs == PairsFrom(Len(entities), 1, 2)
             rels == [k \in 1..Len(pairs) |->
                         RelationshipKwargs(entities[pairs[k].i], entities[pairs[k].j], k)]
             bad == {k \in 1..Len(rels) : ~ValidRelationship(rels[k])}
         IN IF bad = {}
            THEN [raises |-> FALSE, relationships |-> rels]
            ELSE [raises |-> TRUE,
                  relationships |-> SubSeq(rels, 1, (CHOOSE k \in bad : \A l \in bad : k <= l) - 1)]

\* ------------------------------------------------------------------------
\* auth/jwt.py, auth/dependencies.py, services/auth.py.  Time is in
\* minutes; a token is its claims together with the key that signed it.
\* ------------------------------------------------------------------------
access_token_expire_minutes == 30

refresh_token_expire_days == 7

jwt_secret_key == "jwt_secret_key"

\* timedelta(days=n)
Days(n) == n * 24 * 60

\* jwt.encode(payload, key, algorithm)
JwtEncode(payload, key) == [payload |-> payload, key |-> key]

\* jwt.decode(token, key, algorithms): the claims, or a JWTError for a
\* signature of another key and for an exp claim in the past
JwtDecode(token, key, now) ==
    IF token.key # key THEN [error |-> "Signature verification failed."]
    ELSE IF token.payload.exp < now THEN [error |-> "Signature has expired."]
    ELSE [error |-> None, payload |-> token.payload]

\* payload.get(key, default)
PayloadGet(payload, key, default) ==
    IF key \in DOMAIN payload THEN payload[key] ELSE default

CreateAccessToken(user_id, tenant_id, email, role, now) ==
    JwtEncode([sub |-> user_id, tenant_id |-> tenant_id, email |-> email, role |-> role,
               exp |-> now + access_token_expire_minutes, iat |-> now,
               token_type |-> "access"],
              jwt_secret_key)

CreateRefreshToken(user_id, tenant_id, now) ==
    JwtEncode([sub |-> user_id, tenant_id |-> tenant_id,
               exp |-> now + Days(refresh_token_expire_days), iat |-> now,
               token_type |-> "refresh"],
              jwt_secret_key)

\* decode_token: TokenData, or TokenError
DecodeToken(token, now) ==
    LET decoded == JwtDecode(token, jwt_secret_key, now)
    IN IF decoded.error # None
       THEN [raises |-> TRUE, error |-> "Invalid token"]
       ELSE IF PayloadGet(decoded.payload, "sub", "") = ""
       THEN [raises |-> TRUE, error |-> "Token missing subject"]
       ELSE IF PayloadGet(decoded.payload, "tenant_id", "") = ""
       THEN [raises |-> TRUE, error |-> "Token missing tenant_id"]
       ELSE [raises |-> FALSE,
             data |-> [sub |-> decoded.payload.sub,
                       tenant_id |-> decoded.payload.tenant_id,
                       email |-> PayloadGet(decoded.payload, "email", ""),
                       role |-> PayloadGet(decoded.payload, "role", "user"),
                       exp |-> decoded.payload.exp,
                       token_type |-> PayloadGet(decoded.payload, "token_type", "access")]]

\* a check that takes every token type
VerifyTokenTypeAny(token_data, expected_type) == TRUE

\* verify_token_type
VerifyTokenType(token_data, expected_type) == token_data.token_type = expected_type

\* the bearer credentials of a request; the header may be missing
NoCredentials == [present |-> FALSE]

Credentials(token) == [present |-> TRUE, credentials |-> token]

\* get_current_user: the TokenData, or the HTTPException it raises
GetCurrentUser(credentials, now) ==
    IF ~credentials.present
    THEN [status_code |-> "401", detail |-> "Authentication required"]
    ELSE LET decoded == DecodeToken(credentials.credentials, now)
         IN IF decoded.raises
            THEN [status_code |-> "401", detail |-> decoded.error]
            ELSE IF ~VerifyTokenType(decoded.data, "access")
            THEN [status_code |-> "401", detail |-> "Invalid token type"]
            ELSE [status_code |-> "200", user |-> decoded.data]

\* AuthService._create_tokens
CreateTokens(user, now) ==
    [access_token |-> CreateAccessToken(user.id, user.tenant_id, user.email, user.role, now),
     refresh_token |-> CreateRefreshToken(user.id, user.tenant_id, now)]

\* AuthService.refresh against the user table: a TokenPair, or ValueError
Refresh(refresh_token, users, now) ==
    LET decoded == DecodeToken(refresh_token, now)
    IN IF decoded.raises
       THEN [raises |-> TRUE, error |-> "Invalid refresh token"]
       ELSE IF ~VerifyTokenType(decoded.data, "refresh")
       THEN [raises |-> TRUE, error |-> "Invalid token type - expected refresh token"]
       ELSE IF users[decoded.data.sub].state # "active"
       THEN [raises |-> TRUE, error |-> "User not found or inactive"]
       ELSE [raises |-> FALSE, tokens |-> CreateTokens(users[decoded.data.sub].row, now)]

\* ------------------------------------------------------------------------
\* State
\* ------------------------------------------------------------------------
VARIABLES
    ck_pieces,      \* chunker run: number of pieces the body was built from
    ck_document,    \* chunker run: the RawDocument handed to parse
    ck_config,      \* chunker run: SemanticChunker._default_config
    ck_pc,          \* chunker run: "input", "parsed", "returned", "diverged"
    ck_parsed,      \* chunker run: the document parse returned
    ck_chunks       \* chunker run: the list chunk returned

VARIABLES
    collections,    \* vector server: collection name -> set of points
    graphs,         \* graph server: graph name -> nodes, documents, links
    st_calls,       \* store client: number of calls made
    st_last         \* store client: the last call and what it returned

VARIABLES
    documents,      \* ingest_batch: the documents argument
    max_concurrent, \* ingest_batch: the max_concurrent argument
    chunker_config, \* the configuration of the orchestrator's chunker
    semaphore,      \* ingest_batch: the value of the semaphore
    pc,             \* per call of bounded_ingest: where it is
    locals,         \* per call of ingest: its local variables
    outcome,        \* per call of ingest: how it ended
    done_order,     \* the calls in the order they completed
    batch_pc,       \* ingest_batch: "idle", "gathering", "returned", "raised"
    results         \* ingest_batch: the list it returns

VARIABLES
    em_chunks,      \* embed_chunks: the chunks argument
    em_pc,          \* embed_chunks: where the call is
    em_i,           \* embed_texts: the loop variable i
    em_all,         \* embed_texts: all_embeddings
    em_attempt,     \* _embed_batch: tenacity's attempt_number
    em_errors,      \* the errors of the provider calls made for this batch
    em_waits,       \* the backoff waits made for this batch
    em_calls,       \* the number of provider calls of the whole call
    em_result       \* embed_chunks: the list it returns

em_vars == <<em_chunks, em_pc, em_i, em_all, em_attempt, em_errors, em_waits,
             em_calls, em_result>>

VARIABLES
    q_args,           \* query: tenant_id, top_k, filters, include_graph, synthesize
    q_use_rerank,     \* the engine's use_rerank
    q_pc,             \* query: where the call is
    q_vector_results, \* query: vector_results
    q_entities,       \* query: entities
    q_invoked,        \* the services the call has invoked
    q_llm,            \* how the LLM call went: "none", "ok", "raise"
    q_raised,         \* the exception query raised
    q_result          \* the QueryResult query returned

q_vars == <<q_args, q_use_rerank, q_pc, q_vector_results, q_entities, q_invoked,
            q_llm, q_raised, q_result>>

VARIABLES
    ex_chunk,            \* extract_from_chunk: the chunk argument
    ex_raw,              \* what extract returns for the chunk's content
    ex_out,              \* extract_from_chunk: how the call ended
    ex_use_llm_fallback, \* the extractor's use_llm_fallback
    ex_entities,         \* extract_relationships: the entities argument
    ex_rel,              \* extract_relationships: how the call ended
    ex_pc                \* which calls were made

ex_vars == <<ex_chunk, ex_raw, ex_out, ex_use_llm_fallback, ex_entities, ex_rel, ex_pc>>

VARIABLES
    au_users,       \* the user table: per id the row and "active", "inactive", "absent"
    au_now,         \* the clock
    au_ticks,       \* how often the clock went on
    au_tokens,      \* the tokens minted so far, each with the function that minted it
    au_last         \* the last request and how it ended

au_vars == <<au_users, au_now, au_ticks, au_tokens, au_last>>

\* the state of the runs of the services around the core
tail_vars == <<au_vars>>

\* the state of the component runs that follow the pipeline
side_vars == <<em_vars, q_vars, ex_vars, tail_vars>>

in_vars == <<documents, max_concurrent, chunker_config, semaphore, pc, locals,
             outcome, done_order, batch_pc, results>>

ck_vars == <<ck_pieces, ck_document, ck_config, ck_pc, ck_parsed, ck_chunks>>

db_vars == <<collections, graphs>>

st_vars == <<st_calls, st_last>>

vars == <<ck_vars, db_vars, st_vars, in_vars, side_vars>>

\* ------------------------------------------------------------------------
\* A run of chunk(parse(d)) over bounded documents
\* ------------------------------------------------------------------------
W7 == <<"a", "a", "a", "a", "a", "a", "a">>

\* the pieces bodies are built from: two words, the separators of the
\* three chunking strategies, and a signature delimiter
Pieces ==
    {W7, <<"a">>, <<SP>>, <<NL>>, <<NL, NL>>, <<".", SP>>, <<NL, "#", SP>>,
     <<NL, "-", "-", NL>>}

\* one source kind for each route of parse and chunk
RoutedSources == {"m365_email", "slack", "m365_file"}

\* None (the per-kind defaults) and three injected configurations
ChunkerConfigs ==
    {NoConfig, ChunkingConfig(1, 0), ChunkingConfig(2, 0), ChunkingConfig(3, 2)}

ckIdle ==
    /\ ck_pieces = 0
    /\ ck_document = [id |-> "d1", tenant_id |-> "A", source |-> "m365_email", body |-> <<>>]
    /\ ck_config = NoConfig
    /\ ck_pc = "idle"
    /\ ck_parsed = ck_document
    /\ ck_chunks = <<>>

dbEmpty ==
    /\ collections = << >>
    /\ graphs = << >>

NoCall == [call |-> "none", tenant_id |-> "none", error |-> FALSE, rows |-> {}]

stIdle ==
    /\ st_calls = 0
    /\ st_last = NoCall

inIdle ==
    /\ documents = << >>
    /\ max_concurrent = 1
    /\ chunker_config = NoConfig
    /\ semaphore = 1
    /\ pc = << >>
    /\ locals = << >>
    /\ outcome = << >>
    /\ done_order = << >>
    /\ batch_pc = "idle"
    /\ results = << >>

emIdle ==
    /\ em_chunks = << >>
    /\ em_pc = "idle"
    /\ em_i = 0
    /\ em_all = << >>
    /\ em_attempt = 1
    /\ em_errors = << >>
    /\ em_waits = << >>
    /\ em_calls = 0
    /\ em_result = << >>

NoArgs ==
    [tenant_id |-> "A", top_k |-> 1, filters |-> NoFilter, include_graph |-> FALSE,
     synthesize |-> FALSE]

qIdle ==
    /\ q_args = NoArgs
    /\ q_use_rerank = FALSE
    /\ q_pc = "idle"
    /\ q_vector_results = << >>
    /\ q_entities = << >>
    /\ q_invoked = {}
    /\ q_llm = "none"
    /\ q_raised = NoExc
    /\ q_result = QueryResult(NoSynthesis, << >>, << >>)

ExChunk ==
    [id |-> "c1", document_id |-> "d1", tenant_id |-> "A", chunk_index |-> 0,
     content |-> <<"A", "l", SP, "a", "l", SP, "B", "o">>]

NoExtraction == [raises |-> FALSE, entities |-> << >>, mentions |-> << >>]

NoRelationships == [raises |-> FALSE, relationships |-> << >>]

exIdle ==
    /\ ex_chunk = ExChunk
    /\ ex_raw = << >>
    /\ ex_out = NoExtraction
    /\ ex_use_llm_fallback = TRUE
    /\ ex_entities = << >>
    /\ ex_rel = NoRelationships
    /\ ex_pc = [chunk |-> "idle", relationships |-> "idle"]

NoRequest == [call |-> "none"]

auIdle ==
    /\ au_users = << >>
    /\ au_now = 0
    /\ au_ticks = 0
    /\ au_tokens = {}
    /\ au_last = NoRequest

tailIdle == auIdle

sideIdle == emIdle /\ qIdle /\ exIdle /\ tailIdle

InitChunk ==
    /\ dbEmpty /\ stIdle /\ inIdle /\ sideIdle
    /\ ck_pieces = 0
    /\ \E id \in {"d1", "d2"}, t \in {"A", "B"}, s \in RoutedSources :
          ck_document = [id |-> id, tenant_id |-> t, source |-> s, body |-> <<>>]
    /\ ck_config \in ChunkerConfigs
    /\ ck_pc = "input"
    /\ ck_parsed = ck_document
    /\ ck_chunks = <<>>

\* the connector delivers a longer body
AppendPiece(p) ==
    /\ ck_pc = "input"
    /\ ck_pieces < MaxPieces
    /\ ck_pieces' = ck_pieces + 1
    /\ ck_document' = [ck_document EXCEPT !.body = @ \o p]
    /\ ck_parsed' = ck_document'
    /\ UNCHANGED <<ck_config, ck_pc, ck_chunks>>
    /\ UNCHANGED <<db_vars, st_vars, in_vars, side_vars>>

\* parsed = parser.parse(document)
DoParse ==
    /\ ck_pc = "input"
    /\ ck_parsed' = Parse(ck_document)
    /\ ck_pc' = "parsed"
    /\ UNCHANGED <<ck_pieces, ck_document, ck_config, ck_chunks>>
    /\ UNCHANGED <<db_vars, st_vars, in_vars, side_vars>>

\* chunks = chunker.chunk(parsed)
DoChunk ==
    /\ ck_pc = "parsed"
    /\ LET r == Chunk(ck_parsed, ck_config)
       IN /\ ck_pc' = IF r.diverges THEN "diverged" ELSE "returned"
          /\ ck_chunks' = r.chunks
    /\ UNCHANGED <<ck_pieces, ck_document, ck_config, ck_parsed>>
    /\ UNCHANGED <<db_vars, st_vars, in_vars, side_vars>>

NextChunk ==
    \/ \E p \in Pieces : AppendPiece(p)
    \/ DoParse
    \/ DoChunk

SpecChunk == InitChunk /\ [][NextChunk]_vars

\* ------------------------------------------------------------------------
\* A client calling the two stores for two tenants, one call after another
\* ------------------------------------------------------------------------
Tenants == {"A", "B"}

NameUpper == <<"A", "l">>
NameLower == <<"a", "l">>

\* chunks with embeddings, as embed_chunks hands them to upsert: the same
\* ids and contents are offered to both tenants
StorePairs(t) ==
    {[chunk |-> [id |-> id, document_id |-> d, tenant_id |-> t, chunk_index |-> 0,
                 content |-> W7],
      embedding |-> W7] : id \in {"c1", "c2"}, d \in {"d1", "d2"}}

StorePairLists(t) ==
    {<< >>} \cup {<<x>> : x \in StorePairs(t)}
            \cup {<<x, y>> : x \in {q \in StorePairs(t) : q.chunk.id = "c1" /\ q.chunk.document_id = "d1"},
                             y \in {q \in StorePairs(t) : q.chunk.document_id = "d2"}}

StoreEntities(t) ==
    {[id |-> id, name |-> n, type |-> ty, tenant_id |-> t] :
        id \in {"e1", "e2"}, n \in {NameUpper, NameLower}, ty \in {"person", "organization"}}

InitStore ==
    /\ ckIdle /\ dbEmpty /\ stIdle /\ inIdle /\ sideIdle

StoreCall ==
    /\ st_calls < MaxStoreCalls
    /\ st_calls' = st_calls + 1
    /\ UNCHANGED <<ck_vars, in_vars, side_vars>>

\* VectorStore.upsert(tenant_id, chunks)
StoreUpsert(t, pairs) ==
    /\ StoreCall
    /\ collections' = UpsertAll(collections, t, pairs)
    /\ st_last' = [call |-> "upsert", tenant_id |-> t, error |-> FALSE, rows |-> {}]
    /\ UNCHANGED graphs

\* VectorStore.search(tenant_id, query_embedding, limit, filters): the
\* server answers 404 for a collection that does not exist
StoreSearch(t, limit, filter) ==
    /\ StoreCall
    /\ IF CollectionName(t) \in DOMAIN collections
       THEN \E rows \in SearchResults(collections, t, limit, filter) :
               st_last' = [call |-> "search", tenant_id |-> t, error |-> FALSE, rows |-> rows]
       ELSE st_last' = [call |-> "search", tenant_id |-> t, error |-> TRUE, rows |-> {}]
    /\ UNCHANGED db_vars

\* GraphStore.create_entity(tenant_id, entity)
StoreCreateEntity(t, entity) ==
    /\ StoreCall
    /\ graphs' = CreateEntity(graphs, t, entity)
    /\ st_last' = [call |-> "create_entity", tenant_id |-> t, error |-> FALSE,
                   rows |-> {[id |-> CreateEntityReturn(entity), name |-> entity.name,
                              type |-> entity.type, written_under |-> t]}]
    /\ UNCHANGED collections

\* GraphStore.link_entity_to_document(tenant_id, entity_id, document_id)
StoreLink(t, entity_id, document_id) ==
    /\ StoreCall
    /\ graphs' = LinkEntityToDocument(graphs, t, entity_id, document_id)
    /\ st_last' = [call |-> "link", tenant_id |-> t, error |-> FALSE, rows |-> {}]
    /\ UNCHANGED collections

\* GraphStore.find_entities_by_name(tenant_id, name_pattern, entity_type, limit)
StoreFind(t, name_pattern, entity_type, limit) ==
    /\ StoreCall
    /\ \E rows \in FindEntitiesByName(graphs, t, name_pattern, entity_type, limit) :
          st_last' = [call |-> "find", tenant_id |-> t, error |-> FALSE, rows |-> rows]
    /\ UNCHANGED db_vars

NextStore ==
    \/ \E t \in Tenants : \E pairs \in StorePairLists(t) : StoreUpsert(t, pairs)
    \/ \E t \in Tenants, limit \in {1, 10},
          filter \in {NoFilter, [field |-> "document_id", value |-> "d1"]} :
          StoreSearch(t, limit, filter)
    \/ \E t \in Tenants : \E entity \in StoreEntities(t) : StoreCreateEntity(t, entity)
    \/ \E t \in Tenants, entity_id \in {"e1", "e2"}, document_id \in {"d1"} :
          StoreLink(t, entity_id, document_id)
    \/ \E t \in Tenants, name_pattern \in {<<"l">>, <<"A">>},
          entity_type \in {AnyType, "person"}, limit \in {1, 10} :
          StoreFind(t, name_pattern, entity_type, limit)

SpecStore == InitStore /\ [][NextStore]_vars


\* ------------------------------------------------------------------------
\* ingest_batch(documents, max_concurrent): one call of bounded_ingest per
\* document, each an asyncio task that runs until its next await
\* ------------------------------------------------------------------------
Corpus ==
    {[id |-> "d1", tenant_id |-> "A", source |-> "m365_email", source_id |-> "s1",
      body |-> W7 \o <<SP>> \o W7],
     [id |-> "d2", tenant_id |-> "B", source |-> "slack", source_id |-> "s2",
      body |-> <<SP, NL>>]}

Batches == UNION {[1..n -> Corpus] : n \in 1..MaxBatch}

\* SemanticChunker(), and SemanticChunker(config) for two configurations:
\* under ChunkingConfig(1, 0) the word window is int(1 * 0.75) = 0 words
OrchestratorConfigs == {NoConfig, ChunkingConfig(2, 0), ChunkingConfig(1, 0)}

Calls == 1..Len(documents)

NoLocals ==
    [parsed |-> [id |-> None, tenant_id |-> None, source |-> None, source_id |-> None,
                 body |-> << >>],
     chunks |-> << >>, idx |-> 0, all_entities |-> << >>, chunk_embeddings |-> << >>,
     existing |-> {}, upserted |-> FALSE, e |-> NoExc]

Init ==
    /\ ckIdle /\ dbEmpty /\ stIdle /\ sideIdle
    /\ documents \in Batches
    /\ max_concurrent \in 1..MaxConcurrent
    /\ chunker_config \in OrchestratorConfigs
    /\ semaphore = max_concurrent
    /\ pc = [i \in 1..Len(documents) |-> "waiting"]
    /\ locals = [i \in 1..Len(documents) |-> NoLocals]
    /\ outcome = [i \in 1..Len(documents) |-> NoOutcome]
    /\ done_order = << >>
    /\ batch_pc = "gathering"
    /\ results = << >>

Frame == UNCHANGED <<ck_vars, st_vars, side_vars, documents, max_concurrent,
                     chunker_config, batch_pc, results>>

\* call i goes on to its next await
Goto(i, label, new_locals) ==
    /\ pc' = [pc EXCEPT ![i] = label]
    /\ locals' = [locals EXCEPT ![i] = new_locals]
    /\ UNCHANGED <<outcome, done_order, semaphore>>

\* ingest returns or raises, its locals go away, and bounded_ingest leaves
\* "async with semaphore"; e and upserted stay as a record of the call
End(i, out, e, permits) ==
    /\ pc' = [pc EXCEPT ![i] = "done"]
    /\ locals' = [locals EXCEPT ![i] = [NoLocals EXCEPT !.e = e, !.upserted = locals[i].upserted]]
    /\ outcome' = [outcome EXCEPT ![i] = out]
    /\ done_order' = Append(done_order, i)
    /\ semaphore' = permits + 1

\* an exception e reaches "except Exception as e"
Caught(i, e, permits) == End(i, IngestExcept(documents[i], e), e, permits)

\* "async with semaphore", then stages 1 and 2: parse and chunk have no await.
\* The parser and the chunker are constructor arguments: besides the
\* repository's own, a parser that hands the document back, a chunker that
\* returns no chunk, and either one raising
Start(i) ==
    /\ batch_pc = "gathering"
    /\ pc[i] = "waiting"
    /\ CanAcquire(semaphore)
    /\ \/ Caught(i, Exc("parse", "parser failed"), semaphore - 1)
       \/ Caught(i, Exc("chunk", "chunker failed"), semaphore - 1)
       \/ \E parse_outcome \in {"ok", "soft"}, chunk_outcome \in {"ok", "empty"} :
             LET document == documents[i]
                 parsed == IF parse_outcome = "soft" THEN document ELSE Parse(document)
                 r == IF chunk_outcome = "empty" THEN [diverges |-> FALSE, chunks |-> << >>]
                      ELSE Chunk(parsed, chunker_config)
                 chunks == WithIds(i, r.chunks)
                 loc == [locals[i] EXCEPT !.parsed = parsed, !.chunks = chunks, !.idx = 1]
             IN IF r.diverges
                THEN /\ pc' = [pc EXCEPT ![i] = "hung"]
                     /\ locals' = [locals EXCEPT ![i] = [@ EXCEPT !.parsed = parsed]]
                     /\ semaphore' = semaphore - 1
                     /\ UNCHANGED <<outcome, done_order>>
                ELSE /\ pc' = [pc EXCEPT ![i] = IF chunks = << >> THEN "embed" ELSE "extract"]
                     /\ locals' = [locals EXCEPT ![i] = loc]
                     /\ semaphore' = semaphore - 1
                     /\ UNCHANGED <<outcome, done_order>>
    /\ UNCHANGED db_vars
    /\ Frame

\* stage 3, one chunk: await extractor.extract_from_chunk(chunk)
Extract(i) ==
    /\ pc[i] = "extract"
    /\ LET k == locals[i].idx
           chunk == locals[i].chunks[k]
           loc == [locals[i] EXCEPT !.all_entities = @ \o ChunkEntities(i, k, chunk),
                                    !.idx = k + 1]
       IN \/ Goto(i, IF k = Len(locals[i].chunks) THEN "embed" ELSE "extract", loc)
          \/ Caught(i, Exc("extract", "extractor failed"), semaphore)
    /\ UNCHANGED db_vars
    /\ Frame

\* a pipeline that goes from the embeddings straight to the graph stage
EmbedSkipsUpsert(i) ==
    /\ pc[i] = "embed"
    /\ \/ Goto(i, "graph", [locals[i] EXCEPT !.chunk_embeddings = EmbedChunks(locals[i].chunks)])
       \/ Caught(i, Exc("embed", "embedding failed"), semaphore)
    /\ UNCHANGED db_vars
    /\ Frame

\* stage 4: await embedder.embed_chunks(chunks); upsert returns 0 at once
\* when it is given no chunk
Embed(i) ==
    /\ pc[i] = "embed"
    /\ LET pairs == EmbedChunks(locals[i].chunks)
       IN \/ Goto(i, IF pairs = << >> THEN "graph" ELSE "get_collections",
                  [locals[i] EXCEPT !.chunk_embeddings = pairs])
          \/ Caught(i, Exc("embed", "embedding failed"), semaphore)
    /\ UNCHANGED db_vars
    /\ Frame

\* stage 5, ensure_collection: await client.get_collections()
GetCollections(i) ==
    /\ pc[i] = "get_collections"
    /\ LET existing == DOMAIN collections
           name == CollectionName(documents[i].tenant_id)
       IN \/ Goto(i, IF name \in existing THEN "upsert" ELSE "create_collection",
                  [locals[i] EXCEPT !.existing = existing])
          \/ Caught(i, Exc("upsert", "vector store unreachable"), semaphore)
    /\ UNCHANGED db_vars
    /\ Frame

\* stage 5, ensure_collection: await client.create_collection(...); the
\* server refuses to create a collection that exists
CreateCollectionCall(i) ==
    /\ pc[i] = "create_collection"
    /\ LET name == CollectionName(documents[i].tenant_id)
       IN IF name \in DOMAIN collections
          THEN /\ Caught(i, Exc("upsert", "collection already exists"), semaphore)
               /\ UNCHANGED db_vars
          ELSE \/ /\ Goto(i, "upsert", locals[i])
                  /\ collections' = CreateCollection(collections, name)
                  /\ UNCHANGED graphs
               \/ /\ Caught(i, Exc("upsert", "vector store unreachable"), semaphore)
                  /\ UNCHANGED db_vars
    /\ Frame

\* stage 5: await client.upsert(collection_name, points)
ClientUpsert(i) ==
    /\ pc[i] = "upsert"
    /\ LET tenant_id == documents[i].tenant_id
       IN \/ /\ Goto(i, "graph", [locals[i] EXCEPT !.upserted = TRUE])
             /\ collections' = UpsertPoints(collections, CollectionName(tenant_id),
                                            Points(tenant_id, locals[i].chunk_embeddings))
             /\ UNCHANGED graphs
          \/ /\ Caught(i, Exc("upsert", "vector store unreachable"), semaphore)
             /\ UNCHANGED db_vars
    /\ Frame

\* a graph stage whose last log call reads entity_ids
GraphStageLogsEntityIds(i) ==
    /\ pc[i] = "graph"
    /\ \E stop \in FailurePoints(Len(locals[i].all_entities)) :
          LET document == documents[i]
              chunk_ids == [k \in 1..Len(locals[i].chunks) |-> locals[i].chunks[k].id]
              entity_ids == [k \in 1..Len(locals[i].all_entities) |->
                                locals[i].all_entities[k].id]
          IN /\ graphs' = IF stop.at = "ensure_schema" THEN graphs
                          ELSE GraphWrites(graphs, document.tenant_id, document.id,
                                           locals[i].all_entities, 1, stop)
             /\ IF stop # NoStop
                THEN Caught(i, Exc(stop.at, "graph store failed"), semaphore)
                ELSE End(i, IngestReturn(IndexedRecord(document, chunk_ids, entity_ids)),
                         NoExc, semaphore)
    /\ UNCHANGED collections
    /\ Frame

\* stage 6 and the record: ensure_schema, create_entity and
\* link_entity_to_document have no await; the log call reads "entities",
\* which is unbound when the loop over the chunks never ran
GraphStage(i) ==
    /\ pc[i] = "graph"
    /\ \E stop \in FailurePoints(Len(locals[i].all_entities)) :
          LET document == documents[i]
              chunk_ids == [k \in 1..Len(locals[i].chunks) |-> locals[i].chunks[k].id]
              entity_ids == [k \in 1..Len(locals[i].all_entities) |->
                                locals[i].all_entities[k].id]
          IN /\ graphs' = IF stop.at = "ensure_schema" THEN graphs
                          ELSE GraphWrites(graphs, document.tenant_id, document.id,
                                           locals[i].all_entities, 1, stop)
             /\ IF stop # NoStop
                THEN Caught(i, Exc(stop.at, "graph store failed"), semaphore)
                ELSE IF locals[i].chunks = << >>
                THEN Caught(i, Exc("log", "local variable 'entities' referenced before assignment"),
                            semaphore)
                ELSE End(i, IngestReturn(IndexedRecord(document, chunk_ids, entity_ids)),
                         NoExc, semaphore)
    /\ UNCHANGED collections
    /\ Frame

\* await asyncio.gather(..., return_exceptions=False): the list of the
\* results when every call has returned, the first exception otherwise
GatherDone ==
    /\ batch_pc = "gathering"
    /\ \/ \A i \in Calls : pc[i] = "done"
       \/ \E i \in Calls : pc[i] = "done" /\ outcome[i].raises
    /\ IF \E i \in Calls : pc[i] = "done" /\ outcome[i].raises
       THEN batch_pc' = "raised" /\ results' = << >>
       ELSE batch_pc' = "returned" /\ results' = Gather(outcome, done_order)
    /\ UNCHANGED <<ck_vars, st_vars, db_vars, side_vars, documents, max_concurrent,
                   chunker_config, semaphore, pc, locals, outcome, done_order>>

Next ==
    \/ \E i \in Calls : Start(i)
    \/ \E i \in Calls : Extract(i)
    \/ \E i \in Calls : Embed(i)
    \/ \E i \in Calls : GetCollections(i)
    \/ \E i \in Calls : CreateCollectionCall(i)
    \/ \E i \in Calls : ClientUpsert(i)
    \/ \E i \in Calls : GraphStage(i)
    \/ GatherDone

Spec == Init /\ [][Next]_vars

\* ------------------------------------------------------------------------
\* One call of embed_chunks(chunks): embed_texts batch by batch, each
\* batch through _embed_batch under the retry decorator
\* ------------------------------------------------------------------------
\* the content of the k-th chunk: neighbours differ, and so do the chunks
\* MAX_BATCH_SIZE apart
EmContent(k) == [j \in 1..((k % 3) + 1) |-> "a"]

EmChunks(n) ==
    [k \in 1..n |-> [id |-> k, document_id |-> "d1", tenant_id |-> "A",
                     content |-> EmContent(k), chunk_index |-> k - 1]]

\* list lengths around the batch borders
EmLengths ==
    {n \in {b * MAX_BATCH_SIZE + r : b \in 0..MaxProviderBatches, r \in {-1, 0, 1}} : n >= 0}

ProviderOutcomes == {"ok", "rate_limit", "other"}

EmFrame == UNCHANGED <<ck_vars, db_vars, st_vars, in_vars, q_vars, ex_vars, tail_vars>>

InitEmbed ==
    /\ ckIdle /\ dbEmpty /\ stIdle /\ inIdle /\ qIdle /\ exIdle /\ tailIdle
    /\ em_chunks \in {EmChunks(n) : n \in EmLengths}
    /\ em_pc = "start"
    /\ em_i = 0
    /\ em_all = << >>
    /\ em_attempt = 1
    /\ em_errors = << >>
    /\ em_waits = << >>
    /\ em_calls = 0
    /\ em_result = << >>

\* embed_chunks calls embed_texts, which returns [] for no text
EmbedTextsStart ==
    /\ em_pc = "start"
    /\ IF em_chunks = << >>
       THEN em_pc' = "returned" /\ em_result' = Zip(em_chunks, << >>)
       ELSE em_pc' = "call" /\ em_result' = em_result
    /\ UNCHANGED <<em_chunks, em_i, em_all, em_attempt, em_errors, em_waits, em_calls>>
    /\ EmFrame

\* one attempt of _embed_batch: await self._client.embed(texts=batch, ...)
ProviderCall ==
    /\ em_pc = "call"
    /\ em_calls' = em_calls + 1
    /\ \E result \in ProviderOutcomes :
          LET texts == [k \in 1..Len(em_chunks) |-> em_chunks[k].content]
              batch == BatchAt(texts, em_i)
              all_embeddings == ExtendEmbeddings(em_all, ProviderEmbed(batch))
              i == em_i + MAX_BATCH_SIZE
          IN IF result = "ok"
             THEN /\ em_all' = all_embeddings
                  /\ em_i' = i
                  /\ em_attempt' = 1
                  /\ em_errors' = << >>
                  /\ em_waits' = << >>
                  /\ IF i < Len(texts)
                     THEN em_pc' = "call" /\ em_result' = em_result
                     ELSE em_pc' = "returned" /\ em_result' = Zip(em_chunks, em_all')
             ELSE /\ em_errors' = Append(em_errors, result)
                  /\ em_pc' = "failed"
                  /\ UNCHANGED <<em_all, em_i, em_attempt, em_waits, em_result>>
    /\ UNCHANGED em_chunks
    /\ EmFrame

\* the decorator after a failed attempt: give up, or sleep and call again
RetryDecision ==
    /\ em_pc = "failed"
    /\ IF ~RetryIf(em_errors[Len(em_errors)]) \/ ShouldStop(em_attempt)
       THEN /\ em_pc' = "raised"
            /\ UNCHANGED <<em_attempt, em_waits>>
       ELSE /\ em_attempt < MaxAttempts
            /\ em_pc' = "call"
            /\ em_waits' = Append(em_waits, WaitExponential(em_attempt))
            /\ em_attempt' = em_attempt + 1
    /\ UNCHANGED <<em_chunks, em_i, em_all, em_errors, em_calls, em_result>>
    /\ EmFrame

NextEmbed == EmbedTextsStart \/ ProviderCall \/ RetryDecision

SpecEmbed == InitEmbed /\ [][NextEmbed]_vars

\* the event loop runs a call that can go on
SpecEmbedFair == SpecEmbed /\ WF_vars(NextEmbed)
\* ------------------------------------------------------------------------
\* One call of RetrievalEngine.query against the stores of tenant A
\* ------------------------------------------------------------------------
\* the (chunk, embedding) pairs of n chunks of the documents d1 and d2
QPairs(n) ==
    [k \in 1..n |->
        [chunk |-> [id |-> k, document_id |-> IF k % 2 = 1 THEN "d1" ELSE "d2",
                    tenant_id |-> "A", chunk_index |-> (k - 1) \div 2,
                    content |-> EmContent(k)],
         embedding |-> Embedding(EmContent(k))]]

\* a vector server on which nothing was ever upserted for A, and the
\* servers after an upsert of n chunks (none left after a delete for n = 0)
QCollections ==
    {<< >>} \cup {UpsertPoints(CreateCollection(<< >>, CollectionName("A")),
                               CollectionName("A"), Points("A", QPairs(n))) : n \in 0..MaxPoints}

QEntity(id, name) == [id |-> id, tenant_id |-> "A", name |-> name, type |-> "person"]

\* a graph server with no, one and two entities of A, and one on which
\* e1 is linked to d1 and e2 to a document d3 that was deleted from the
\* vector index
QGraphs ==
    {<< >>,
     CreateEntity(<< >>, "A", QEntity("e1", <<"A", "l">>)),
     CreateEntity(CreateEntity(<< >>, "A", QEntity("e1", <<"A", "l">>)),
                  "A", QEntity("e2", <<"B", "o">>)),
     LinkEntityToDocument(
         CreateEntity(LinkEntityToDocument(CreateEntity(<< >>, "A", QEntity("e1", <<"A", "l">>)),
                                           "A", "e1", "d1"),
                      "A", QEntity("e2", <<"B", "o">>)),
         "A", "e2", "d3")}

\* three answers of the LLM
LLMAnswers ==
    {<<"Revenue grew ", "[1]">>, <<"I ", "Don't Have Enough", " context.">>,
     <<"I ", "Cannot Find", " it.">>}

QFrame == UNCHANGED <<ck_vars, db_vars, st_vars, in_vars, em_vars, ex_vars, tail_vars,
                      q_args, q_use_rerank>>

InitQuery ==
    /\ ckIdle /\ stIdle /\ inIdle /\ emIdle /\ exIdle /\ tailIdle
    /\ collections \in QCollections
    /\ graphs \in QGraphs
    /\ q_args \in [tenant_id : {"A"}, top_k : 1..MaxTopK,
                   filters : {NoFilter, [field |-> "document_id", value |-> "d1"]},
                   include_graph : BOOLEAN, synthesize : BOOLEAN]
    /\ q_use_rerank \in BOOLEAN
    /\ q_pc = "embed_query"
    /\ q_vector_results = << >>
    /\ q_entities = << >>
    /\ q_invoked = {}
    /\ q_llm = "none"
    /\ q_raised = NoExc
    /\ q_result = QueryResult(NoSynthesis, << >>, << >>)

\* an exception leaves query
QRaise(e) ==
    /\ q_pc' = "raised"
    /\ q_raised' = e
    /\ UNCHANGED <<q_vector_results, q_entities, q_llm, q_result>>

\* query returns
QReturn(synth) ==
    /\ q_pc' = "returned"
    /\ q_result' = QueryResult(synth, q_vector_results, q_entities)
    /\ UNCHANGED <<q_vector_results, q_entities, q_raised>>

\* step 1: await embedding_generator.embed_query(query)
QEmbedQuery ==
    /\ q_pc = "embed_query"
    /\ q_invoked' = q_invoked \cup {"embed"}
    /\ \/ /\ q_pc' = "search"
          /\ UNCHANGED <<q_vector_results, q_entities, q_llm, q_raised, q_result>>
       \/ QRaise(Exc("embed", "embedding failed"))
    /\ QFrame

\* step 2: await vector_store.search(tenant_id, query_embedding, top_k * 2,
\* filters); the server has no collection for a tenant nothing was
\* upserted for.  Step 3 without the reranker: vector_results[:top_k]
QVectorSearch ==
    /\ q_pc = "search"
    /\ q_invoked' = q_invoked \cup {"search"}
    /\ IF CollectionName(q_args.tenant_id) \notin DOMAIN collections
       THEN QRaise(Exc("search", "collection not found"))
       ELSE \/ QRaise(Exc("search", "vector store unreachable"))
            \/ \E hits \in SearchResults(collections, q_args.tenant_id,
                                         q_args.top_k * 2, q_args.filters) :
                  LET vector_results == SortHits(hits)
                  IN /\ IF q_use_rerank /\ vector_results # << >>
                        THEN /\ q_pc' = "rerank"
                             /\ q_vector_results' = vector_results
                        ELSE /\ q_pc' = "graph"
                             /\ q_vector_results' = Take(vector_results, q_args.top_k)
                     /\ UNCHANGED <<q_entities, q_llm, q_raised, q_result>>
    /\ QFrame

\* step 3: _rerank; the client is obtained outside the try
QRerank ==
    /\ q_pc = "rerank"
    /\ \/ /\ q_invoked' = q_invoked \cup {"cohere_client"}
          /\ QRaise(Exc("rerank_client", "cohere client failed"))
       \/ /\ q_invoked' = q_invoked \cup {"cohere_client", "rerank"}
          /\ q_pc' = "graph"
          /\ \/ q_vector_results' = Take(q_vector_results, q_args.top_k)
             \/ \E response \in RerankResponses(Len(q_vector_results), q_args.top_k) :
                   q_vector_results' = Reranked(q_vector_results, response)
          /\ UNCHANGED <<q_entities, q_llm, q_raised, q_result>>
    /\ QFrame

\* step 4: _augment_with_graph when include_graph and there are results
QGraph ==
    /\ q_pc = "graph"
    /\ q_pc' = "synthesize"
    /\ IF q_args.include_graph /\ q_vector_results # << >>
       THEN LET doc_ids == {q_vector_results[k].document_id : k \in 1..Len(q_vector_results)}
            IN /\ q_invoked' = q_invoked \cup {"graph"}
               /\ \E failing \in SUBSET doc_ids :
                     \E rows \in FindEntitiesByName(graphs, q_args.tenant_id, << >>,
                                                    AnyType, 10) :
                         q_entities' = AugmentWithGraph(doc_ids, failing, rows)
       ELSE /\ q_invoked' = q_invoked
            /\ q_entities' = << >>
    /\ UNCHANGED <<q_vector_results, q_llm, q_raised, q_result>>
    /\ QFrame

\* step 5: _synthesize_answer when synthesize, and the return; the LLM
\* client is obtained outside the try
QSynthesize ==
    /\ q_pc = "synthesize"
    /\ IF ~q_args.synthesize
       THEN QReturn(NoSynthesis) /\ UNCHANGED <<q_invoked, q_llm>>
       ELSE IF q_vector_results = << >>
       THEN QReturn(SynthesizeNoSources) /\ UNCHANGED <<q_invoked, q_llm>>
       ELSE \/ /\ q_invoked' = q_invoked \cup {"llm_client"}
               /\ q_pc' = "raised"
               /\ q_raised' = Exc("llm_client", "anthropic client failed")
               /\ UNCHANGED <<q_vector_results, q_entities, q_llm, q_result>>
            \/ /\ q_invoked' = q_invoked \cup {"llm_client", "llm"}
               /\ q_llm' = "raise"
               /\ QReturn(SynthesizeExcept(Exc("llm", "llm call failed")))
            \/ /\ q_invoked' = q_invoked \cup {"llm_client", "llm"}
               /\ q_llm' = "ok"
               /\ \E answer \in LLMAnswers : QReturn(SynthesizeOk(q_vector_results, answer))
    /\ QFrame

NextQuery == QEmbedQuery \/ QVectorSearch \/ QRerank \/ QGraph \/ QSynthesize

SpecQuery == InitQuery /\ [][NextQuery]_vars
\* ------------------------------------------------------------------------
\* Calls of EntityExtractor.extract_from_chunk and extract_relationships
\* ------------------------------------------------------------------------
\* the hits of the recogniser: three texts, two of them equal up to case,
\* and three of the configured types
HitTexts == {<<"A", "l">>, <<"a", "l">>, <<"B", "o">>}

HitTypes == {"person", "organization", "product"}

\* a list of hits as extract returns it
RawEntities(hits) ==
    [k \in 1..Len(hits) |->
        [text |-> hits[k].text, type |-> hits[k].type, start |-> 3 * (k - 1),
         end |-> 3 * (k - 1) + 2, confidence |-> 9]]

HitLists == UNION {[1..n -> [text : HitTexts, type : HitTypes]] : n \in 0..MaxHits}

\* n valid entities of tenant A, as Entity(tenant_id=, type=, name=) gives them
ValidEntities(n) ==
    [k \in 1..n |->
        [id |-> PyStr(Uuid4("entities", "entity", k)), tenant_id |-> "A",
         name |-> IF k % 2 = 1 THEN <<"A", "l">> ELSE <<"B", "o">>,
         type |-> IF k % 2 = 1 THEN "person" ELSE "organization"]]

ExFrame == UNCHANGED <<ck_vars, db_vars, st_vars, in_vars, em_vars, q_vars, tail_vars,
                       ex_chunk, ex_raw, ex_use_llm_fallback, ex_entities>>

InitExtract ==
    /\ ckIdle /\ dbEmpty /\ stIdle /\ inIdle /\ emIdle /\ qIdle /\ tailIdle
    /\ ex_chunk = ExChunk
    /\ ex_raw \in {RawEntities(hits) : hits \in HitLists}
    /\ ex_out = NoExtraction
    /\ ex_use_llm_fallback \in BOOLEAN
    /\ ex_entities \in {ValidEntities(n) : n \in 0..MaxEntities}
    /\ ex_rel = NoRelationships
    /\ ex_pc = [chunk |-> "call", relationships |-> "call"]

ExtractFromChunkCall ==
    /\ ex_pc.chunk = "call"
    /\ ex_out' = ExtractFromChunk(ex_chunk, ex_raw)
    /\ ex_pc' = [ex_pc EXCEPT !.chunk = IF ex_out'.raises THEN "raised" ELSE "returned"]
    /\ UNCHANGED ex_rel
    /\ ExFrame

ExtractRelationshipsCall ==
    /\ ex_pc.relationships = "call"
    /\ ex_rel' = ExtractRelationships(ex_use_llm_fallback, ex_entities)
    /\ ex_pc' = [ex_pc EXCEPT !.relationships = IF ex_rel'.raises THEN "raised" ELSE "returned"]
    /\ UNCHANGED ex_out
    /\ ExFrame

NextExtract == ExtractFromChunkCall \/ ExtractRelationshipsCall

SpecExtract == InitExtract /\ [][NextExtract]_vars

\* ------------------------------------------------------------------------
\* Requests against the auth layer: logins, refreshes and access-protected
\* routes, with a clock and a user table that change in between
\* ------------------------------------------------------------------------
AuUsers == {"u1"}

AuUser(u) == [id |-> u, tenant_id |-> "A", email |-> "u1@example.com", role |-> "user"]

UserStates == {"active", "inactive", "absent"}

\* the tokens of a TokenPair, each with the function that minted it
Minted(pair) ==
    {[token |-> pair.access_token, minted_by |-> "create_access_token"],
     [token |-> pair.refresh_token, minted_by |-> "create_refresh_token"]}

\* a token signed with a key that is not the server's
Forged ==
    [token |-> JwtEncode([sub |-> "u1", tenant_id |-> "A", exp |-> Days(refresh_token_expire_days),
                          iat |-> 0, token_type |-> "access"], "another key"),
     minted_by |-> "nobody"]

AuFrame == UNCHANGED <<ck_vars, db_vars, st_vars, in_vars, em_vars, q_vars, ex_vars>>

InitAuth ==
    /\ ckIdle /\ dbEmpty /\ stIdle /\ inIdle /\ emIdle /\ qIdle /\ exIdle
    /\ au_users \in [AuUsers -> {[state |-> st, row |-> AuUser("u1")] : st \in UserStates}]
    /\ au_now = 0
    /\ au_ticks = 0
    /\ au_tokens = {}
    /\ au_last = NoRequest

\* AuthService.login: authenticate gives no user unless it is there and
\* active
AuLogin(u) ==
    /\ LET pair == CreateTokens(au_users[u].row, au_now)
       IN IF au_users[u].state # "active"
          THEN /\ au_last' = [call |-> "login", raises |-> TRUE]
               /\ UNCHANGED au_tokens
          ELSE /\ Cardinality(au_tokens \cup Minted(pair)) <= 2 * MaxLogins
               /\ au_tokens' = au_tokens \cup Minted(pair)
               /\ au_last' = [call |-> "login", raises |-> FALSE]
    /\ UNCHANGED <<au_users, au_now, au_ticks>>
    /\ AuFrame

\* the user service deactivates, deletes or restores a user
AuSetState(u, st) ==
    /\ au_users[u].state # st
    /\ au_users' = [au_users EXCEPT ![u].state = st]
    /\ UNCHANGED <<au_now, au_ticks, au_tokens, au_last>>
    /\ AuFrame

\* time goes on by the life of an access token or of a refresh token
AuTick(d) ==
    /\ au_ticks < MaxTicks
    /\ au_ticks' = au_ticks + 1
    /\ au_now' = au_now + d
    /\ UNCHANGED <<au_users, au_tokens, au_last>>
    /\ AuFrame

\* a request to an access-protected route
AuGetCurrentUser(c) ==
    /\ au_last' = [call |-> "get_current_user", minted_by |-> c.minted_by,
                   response |-> GetCurrentUser(IF c.minted_by = "none" THEN NoCredentials
                                               ELSE Credentials(c.token), au_now)]
    /\ UNCHANGED <<au_users, au_now, au_ticks, au_tokens>>
    /\ AuFrame

\* a request to the refresh route
AuRefresh(c) ==
    /\ c.minted_by # "none"
    /\ LET result == Refresh(c.token, au_users, au_now)
           minted == IF result.raises THEN {} ELSE Minted(result.tokens)
       IN /\ Cardinality(au_tokens \cup minted) <= 2 * MaxLogins
          /\ au_tokens' = au_tokens \cup minted
          /\ au_last' = [call |-> "refresh", minted_by |-> c.minted_by,
                         user_state |-> au_users[c.token.payload.sub].state,
                         result |-> result]
    /\ UNCHANGED <<au_users, au_now, au_ticks>>
    /\ AuFrame

NextAuth ==
    \/ \E u \in AuUsers : AuLogin(u)
    \/ \E u \in AuUsers, st \in UserStates : AuSetState(u, st)
    \/ \E d \in {access_token_expire_minutes, Days(refresh_token_expire_days)} : AuTick(d)
    \/ \E c \in au_tokens \cup {Forged, [minted_by |-> "none"]} : AuGetCurrentUser(c)
    \/ \E c \in au_tokens \cup {Forged} : AuRefresh(c)

SpecAuth == InitAuth /\ [][NextAuth]_vars

EffectiveConfig ==
    IF ck_config # NoConfig THEN ck_config ELSE DEFAULT_CONFIGS[ck_document.source]

\* ------------------------------------------------------------------------
\* C8.  For every document with a non-empty body, of every source kind and
\* under every chunking configuration, chunk(parse(d)) returns n >= 1
\* chunks with chunk_index 0..n-1 in list order, each carrying the id and
\* the tenant of d.
\* ------------------------------------------------------------------------
ChunkCallEnded == ck_pc \in {"returned", "diverged"}

DenseAndOwned ==
    /\ Len(ck_chunks) >= 1
    /\ \A k \in 1..Len(ck_chunks) :
          /\ ck_chunks[k].chunk_index = k - 1
          /\ ck_chunks[k].document_id = ck_document.id
          /\ ck_chunks[k].tenant_id = ck_document.tenant_id

C8_ChunksDenseNonEmpty ==
    (ChunkCallEnded /\ ck_document.body # <<>>) => (ck_pc = "returned" /\ DenseAndOwned)

\* ------------------------------------------------------------------------
\* C9.  Every chunk returned by chunk has len(content) // 4 <= max_tokens,
\* unless it is one segment of the word-window splitter.
\* ------------------------------------------------------------------------
C9_TokenBudget ==
    ck_pc = "returned" =>
        \A k \in 1..Len(ck_chunks) :
            \/ EstimateTokens(ck_chunks[k].content) <= EffectiveConfig.max_tokens
            \/ ck_chunks[k].origin = "window"


\* ------------------------------------------------------------------------
\* C5.  Tenant isolation: whatever was upserted, created or linked under
\* tenants A and B, a search or find_entities_by_name scoped to one tenant
\* returns only items written under that tenant, and every item lies in the
\* collection or graph named evergreen_<tenant_id> of the tenant it was
\* written under.
\* ------------------------------------------------------------------------
C5_TenantIsolation ==
    /\ \A name \in DOMAIN collections : \A p \in collections[name] :
          name = "evergreen_" \o p.written_under
    /\ \A name \in DOMAIN graphs : \A n \in graphs[name].nodes :
          name = "evergreen_" \o n.written_under
    /\ st_last.call \in {"search", "find"} =>
          \A row \in st_last.rows : row.written_under = st_last.tenant_id

\* a search under A returns a point while B holds a point with the same id
\* and content
W_C5 ==
    /\ st_last.call = "search" /\ st_last.tenant_id = "A"
    /\ "evergreen_B" \in DOMAIN collections
    /\ \E row \in st_last.rows : \E p \in collections["evergreen_B"] :
          p.id = row.id /\ p.content = row.content

\* ------------------------------------------------------------------------
\* C7.  create_entity is merge-on-create: however often it is called with
\* one (name, type) in one tenant, the tenant's graph has one Entity node
\* with that (name, type), and each call after the first leaves the node's
\* mention_count (read as the code reads it, COALESCE(mention_count, 0))
\* strictly larger than it was.
\* ------------------------------------------------------------------------
OneNodePerKey ==
    \A name \in DOMAIN graphs : \A n1, n2 \in graphs[name].nodes :
        (n1.name = n2.name /\ n1.type = n2.type) => n1 = n2

NodesOf(gs, t, key) ==
    IF ("evergreen_" \o t) \in DOMAIN gs
    THEN {n \in gs["evergreen_" \o t].nodes : n.name = key.name /\ n.type = key.type}
    ELSE {}

MentionCountGrows ==
    (st_calls' = st_calls + 1 /\ st_last'.call = "create_entity") =>
        \A key \in st_last'.rows :
            LET before == NodesOf(graphs, st_last'.tenant_id, key)
                after == NodesOf(graphs', st_last'.tenant_id, key)
            IN /\ after # {}
               /\ \A b \in before : \A a \in after :
                     Coalesce(a.mention_count, 0) > Coalesce(b.mention_count, 0)

C7_MergeOnCreate == []OneNodePerKey /\ [][MentionCountGrows]_vars

\* a node that was created and then merged into twice
W_C7 ==
    /\ st_last.call = "create_entity"
    /\ \E n \in NodesOf(graphs, st_last.tenant_id, CHOOSE r \in st_last.rows : TRUE) :
          n.mention_count = 2


\* ------------------------------------------------------------------------
\* C1.  ingest never raises: whichever stage raises (parse, chunk, extract,
\* embed, vector upsert, ensure_schema, create_entity, link), the call
\* returns an IndexedDocument with the id of the input whose status is
\* indexed or failed; it is failed exactly when a stage raised, and then
\* error_message is str(e) of that exception; it is indexed otherwise, and
\* then error_message is null and indexed_at is set.
\* ------------------------------------------------------------------------
C1_IngestNeverRaises ==
    \A i \in 1..Len(pc) : pc[i] = "done" =>
        LET rec == outcome[i].value
            e == locals[i].e
        IN /\ ~outcome[i].raises
           /\ rec.id = documents[i].id
           /\ rec.status \in {"indexed", "failed"}
           /\ (rec.status = "failed") <=> (e # NoExc)
           /\ rec.status = "failed" =>
                 (rec.error_message = Str(e) /\ rec.error_message # None)
           /\ rec.status = "indexed" =>
                 (rec.error_message = None /\ rec.indexed_at # None)

\* one call ended failed because create_entity raised after the vector
\* upsert, another call ended indexed
W_C1 ==
    /\ \E i \in 1..Len(pc) :
          /\ pc[i] = "done" /\ locals[i].e.stage = "create_entity" /\ locals[i].upserted
          /\ outcome[i].value.status = "failed"
    /\ \E j \in 1..Len(pc) : pc[j] = "done" /\ outcome[j].value.status = "indexed"

\* ------------------------------------------------------------------------
\* C2.  Batch isolation: a document that fails does not make ingest_batch
\* raise, does not cancel or change the result of a document whose own
\* stages all succeed (it is returned indexed), and gives its permit back,
\* so that a waiting call is never left without a permit while no call is
\* in flight.
\* ------------------------------------------------------------------------
InFlight == {i \in 1..Len(pc) : pc[i] \notin {"waiting", "done"}}

C2_BatchIsolation ==
    /\ batch_pc # "raised"
    /\ \A i \in 1..Len(pc) :
          (pc[i] = "done" /\ locals[i].e = NoExc) => outcome[i].value.status = "indexed"
    /\ batch_pc = "returned" =>
          \A i \in 1..Len(pc) :
             /\ pc[i] = "done"
             /\ locals[i].e = NoExc => results[i].status = "indexed"
    /\ ((\E i \in 1..Len(pc) : pc[i] = "waiting") /\ InFlight = {}) => semaphore > 0

\* the batch returned with a failed document before an indexed one
W_C2 ==
    /\ batch_pc = "returned"
    /\ \E i, j \in 1..Len(results) :
          /\ i < j
          /\ results[i].status = "failed"
          /\ results[j].status = "indexed"
          /\ done_order = <<i, j>>

\* ------------------------------------------------------------------------
\* C3.  Bounded concurrency: at no time are more than max_concurrent calls
\* of ingest in flight.
\* ------------------------------------------------------------------------
C3_BoundedConcurrency == Cardinality(InFlight) <= max_concurrent

\* max_concurrent calls are in flight and another one waits
W_C3 ==
    /\ Cardinality(InFlight) = max_concurrent
    /\ \E i \in 1..Len(pc) : pc[i] = "waiting"

\* ------------------------------------------------------------------------
\* C4.  ingest_batch returns as many records as it was given documents,
\* and the record at position i has the id of the document at position i.
\* ------------------------------------------------------------------------
C4_BatchOrder ==
    batch_pc = "returned" =>
        /\ Len(results) = Len(documents)
        /\ \A i \in 1..Len(documents) : results[i].id = documents[i].id

\* the batch returned although its second document completed first
W_C4 ==
    /\ batch_pc = "returned"
    /\ Len(documents) >= 2
    /\ documents[1].id # documents[2].id
    /\ done_order[1] = 2

\* ------------------------------------------------------------------------
\* C6.  Re-ingestion converges: when a document is ingested again after
\* its first ingestion reached indexed, the tenant's collection holds one
\* point per chunk of the document, as after one ingestion.
\* ------------------------------------------------------------------------
PointsOfDocument(tenant_id, document_id) ==
    IF CollectionName(tenant_id) \in DOMAIN collections
    THEN {p \in collections[CollectionName(tenant_id)] : p.document_id = document_id}
    ELSE {}

C6_ReingestConverges ==
    (max_concurrent = 1 /\ batch_pc = "returned") =>
        \A i \in 1..Len(results) :
            results[i].status = "indexed" =>
                Cardinality(PointsOfDocument(results[i].tenant_id, results[i].id))
                    = Len(results[i].chunk_ids)

\* ------------------------------------------------------------------------
\* C10.  Empty documents are rejected: a document whose body is empty or
\* whitespace only ends with status failed, and no chunk with empty content
\* is upserted.
\* ------------------------------------------------------------------------
C10_EmptyRejected ==
    /\ \A i \in 1..Len(pc) :
          (pc[i] = "done" /\ Strip(documents[i].body) = << >>)
              => outcome[i].value.status = "failed"
    /\ \A name \in DOMAIN collections : \A p \in collections[name] :
          Strip(p.content) # << >>


\* ------------------------------------------------------------------------
\* C11.  embed_chunks(chunks) returns len(chunks) pairs, the i-th being
\* (chunks[i], the provider's vector for chunks[i].content), for the empty
\* list and for lists of several provider batches; while the loop runs,
\* all_embeddings holds the vectors of the first i texts in input order.
\* ------------------------------------------------------------------------
C11_EmbedChunksOrder ==
    /\ em_pc \in {"call", "failed", "raised"} =>
          em_all = [k \in 1..Min(em_i, Len(em_chunks)) |-> Embedding(em_chunks[k].content)]
    /\ em_pc = "returned" =>
          /\ Len(em_result) = Len(em_chunks)
          /\ \A k \in 1..Len(em_chunks) :
                /\ em_result[k].chunk = em_chunks[k]
                /\ em_result[k].embedding = Embedding(em_chunks[k].content)
          /\ em_result = EmbedChunks(em_chunks)

\* a list of three provider batches was embedded
W_C11 ==
    /\ em_pc = "returned"
    /\ Len(em_result) > 2 * MAX_BATCH_SIZE
    /\ em_calls >= 3

\* ------------------------------------------------------------------------
\* C12.  Bounded retry: a batch is attempted at most 5 times; after the
\* fifth failed attempt the failure goes to the caller; the number of
\* provider calls of one embed_texts is at most 5 per batch, and every
\* call of embed_chunks returns or raises in the end.
\* ------------------------------------------------------------------------
BatchCount(n) == (n + MAX_BATCH_SIZE - 1) \div MAX_BATCH_SIZE

RetryBounded ==
    /\ em_attempt <= 5
    /\ Len(em_errors) <= 5
    /\ em_calls <= 5 * BatchCount(Len(em_chunks))
    /\ (em_pc = "raised" /\ \A k \in 1..Len(em_errors) : em_errors[k] = "rate_limit")
          => Len(em_errors) = 5

EmbedEnded == em_pc \in {"returned", "raised"}

C12_BoundedRetry == []RetryBounded /\ (em_pc = "start" ~> EmbedEnded)

\* the second batch failed five times with a rate-limit error and the
\* call raised
W_C12 ==
    /\ em_pc = "raised"
    /\ em_i = MAX_BATCH_SIZE
    /\ em_errors = <<"rate_limit", "rate_limit", "rate_limit", "rate_limit", "rate_limit">>
    /\ em_waits = <<2, 2, 4, 8>>

\* ------------------------------------------------------------------------
\* C13.  Only rate-limit failures are retried: after a provider call that
\* failed with another error there is no backoff wait and no further
\* provider call for the batch, and the call raises.
\* ------------------------------------------------------------------------
C13_OnlyRateLimitRetried ==
    \A k \in 1..Len(em_errors) :
        em_errors[k] = "other" =>
            /\ k = Len(em_errors)
            /\ Len(em_waits) < k
            /\ em_pc \in {"failed", "raised"}

\* ------------------------------------------------------------------------
\* C14.  A query with synthesize on against a tenant that has no indexed
\* data, nothing having failed in the embedding provider or the vector
\* server, returns a QueryResult with no sources, confidence 0 and the
\* canned no-information answer, and invokes neither the LLM, nor the
\* reranker, nor the graph store.
\* ------------------------------------------------------------------------
NoIndexedData(tenant_id) ==
    \/ CollectionName(tenant_id) \notin DOMAIN collections
    \/ collections[CollectionName(tenant_id)] = {}

QueryEnded == q_pc \in {"returned", "raised"}

C14_EmptyTenantQuery ==
    (/\ QueryEnded
     /\ q_args.synthesize
     /\ NoIndexedData(q_args.tenant_id)
     /\ q_raised.message \notin {"embedding failed", "vector store unreachable"}) =>
        /\ q_pc = "returned"
        /\ q_result.sources = << >>
        /\ q_result.confidence = 0
        /\ q_result.answer = NoInfoAnswer
        /\ q_invoked \cap {"llm_client", "llm", "cohere_client", "rerank", "graph"} = {}

\* ------------------------------------------------------------------------
\* C15.  query raises if and only if the query embedding or the vector
\* search fails: a failure of the rerank step (obtaining the client
\* included), of the graph augmentation or of the synthesis (obtaining the
\* client included) ends in a QueryResult.
\* ------------------------------------------------------------------------
C15_HardFailurePolicy ==
    q_pc = "raised" => q_raised.stage \in {"embed", "search"}

\* ------------------------------------------------------------------------
\* C16.  When the LLM call fails and there are sources, query returns the
\* apology answer, confidence 0.2, which is below the confidence of every
\* successful synthesis, and the sources a successful synthesis returns.
\* ------------------------------------------------------------------------
C16_SynthesisDegrades ==
    (q_pc = "returned" /\ q_llm = "raise") =>
        /\ q_result.answer = ApologyAnswer
        /\ q_result.confidence = 2
        /\ Len(q_result.sources) >= 1
        /\ \A answer \in LLMAnswers :
              LET ok == QueryResult(SynthesizeOk(q_vector_results, answer),
                                    q_vector_results, q_entities)
              IN /\ ok.sources = q_result.sources
                 /\ ok.confidence > q_result.confidence
        /\ \A n \in 1..(2 * MaxPoints) : \A answer \in LLMAnswers :
              SynthConfidence(n, answer) > q_result.confidence

\* the LLM call failed after a rerank gave two sources
W_C16 ==
    /\ q_pc = "returned" /\ q_llm = "raise"
    /\ "rerank" \in q_invoked
    /\ Len(q_result.sources) = 2

\* ------------------------------------------------------------------------
\* C17.  Confidence (in tenths) lies in 0..10; after a successful
\* synthesis over n >= 1 sources it is min(9, 5 + n), and 3 when the
\* lowercased answer has "don't have enough" or "cannot find".
\* ------------------------------------------------------------------------
C17_ConfidencePolicy ==
    q_pc = "returned" =>
        /\ q_result.confidence \in 0..10
        /\ q_llm = "ok" =>
              LET n == Len(q_result.sources)
                  low == Lower(q_result.answer)
              IN /\ n >= 1
                 /\ IF InText("don't have enough", low) \/ InText("cannot find", low)
                    THEN q_result.confidence = 3
                    ELSE /\ q_result.confidence = Min(9, 5 + n)
                         /\ q_result.confidence <= 9

\* five sources and an answer give the capped confidence
W_C17 ==
    /\ q_pc = "returned" /\ q_llm = "ok"
    /\ Len(q_result.sources) = 5
    /\ q_result.confidence = 9

\* ------------------------------------------------------------------------
\* C18.  extract_from_chunk returns, for every list of raw hits, one
\* Entity per distinct (lowercased text, type), built from the first hit
\* with that key and carrying the chunk's tenant, and one EntityMention per
\* hit whose entity_id is the id of the Entity of the hit's key.
\* ------------------------------------------------------------------------
HitKeys == {HitKey(ex_raw[k]) : k \in 1..Len(ex_raw)}

FirstHit(key) == CHOOSE k \in 1..Len(ex_raw) :
    HitKey(ex_raw[k]) = key /\ \A l \in 1..(k - 1) : HitKey(ex_raw[l]) # key

C18_DedupWithinChunk ==
    ex_pc.chunk \in {"returned", "raised"} =>
        /\ ex_pc.chunk = "returned"
        /\ Len(ex_out.entities) = Cardinality(HitKeys)
        /\ Len(ex_out.mentions) = Len(ex_raw)
        /\ \A e \in 1..Len(ex_out.entities) :
              /\ ex_out.entities[e].tenant_id = ex_chunk.tenant_id
              /\ \E key \in HitKeys :
                    /\ ex_out.entities[e].name = ex_raw[FirstHit(key)].text
                    /\ ex_out.entities[e].type = key.type
        /\ \A k \in 1..Len(ex_out.mentions) :
              \E e \in 1..Len(ex_out.entities) :
                  /\ ex_out.mentions[k].entity_id = ex_out.entities[e].id
                  /\ HitKey([text |-> ex_out.entities[e].name,
                             type |-> ex_out.entities[e].type]) = HitKey(ex_raw[k])

\* ------------------------------------------------------------------------
\* C19.  extract_relationships returns, for n >= 2 entities, n(n-1)/2
\* relationships, one per unordered pair of distinct entities, each of
\* type co_occurs_with with confidence 0.3 (3 tenths), and the empty list
\* for fewer than 2 entities (for the extractor as it is built by default,
\* use_llm_fallback=True).
\* ------------------------------------------------------------------------
C19_CoOccurrence ==
    (ex_pc.relationships \in {"returned", "raised"} /\ ex_use_llm_fallback) =>
        LET n == Len(ex_entities)
            rels == ex_rel.relationships
        IN /\ ex_pc.relationships = "returned"
           /\ n < 2 => rels = << >>
           /\ n >= 2 =>
                 /\ 2 * Len(rels) = n * (n - 1)
                 /\ \A i, j \in 1..n : i < j =>
                       \E k \in 1..Len(rels) :
                           /\ rels[k].source_entity_id = ex_entities[i].id
                           /\ rels[k].target_entity_id = ex_entities[j].id
                 /\ \A k \in 1..Len(rels) :
                       /\ rels[k].relation_type = "co_occurs_with"
                       /\ rels[k].confidence = 3

\* ------------------------------------------------------------------------
\* C20.  Entity identity is (normalized name, type) within a tenant: two
\* nodes of one graph whose names are equal up to letter case and whose
\* types are equal are one node.
\* ------------------------------------------------------------------------
C20_IdentityNormalized ==
    \A name \in DOMAIN graphs : \A n1, n2 \in graphs[name].nodes :
        (LowerText(n1.name) = LowerText(n2.name) /\ n1.type = n2.type) => n1 = n2

\* ------------------------------------------------------------------------
\* C21.  Token types are kept apart: decode_token gives back the
\* token_type a token was minted with; get_current_user answers 401 to
\* every token create_refresh_token minted; refresh raises for every
\* token create_access_token minted, and for a token of a user that is
\* absent or inactive.
\* ------------------------------------------------------------------------
MintedType(minted_by) ==
    IF minted_by = "create_access_token" THEN "access" ELSE "refresh"

C21_TokenTypeSeparation ==
    /\ \A t \in au_tokens :
          LET decoded == DecodeToken(t.token, au_now)
          IN ~decoded.raises => decoded.data.token_type = MintedType(t.minted_by)
    /\ (au_last.call = "get_current_user" /\ au_last.minted_by = "create_refresh_token")
          => au_last.response.status_code = "401"
    /\ (au_last.call = "refresh" /\ au_last.minted_by = "create_access_token")
          => au_last.result.raises
    /\ (au_last.call = "refresh" /\ au_last.user_state # "active")
          => au_last.result.raises

\* a refresh token that has not expired was turned away from a protected
\* route for its type
W_C21 ==
    /\ au_last.call = "get_current_user"
    /\ au_last.minted_by = "create_refresh_token"
    /\ au_last.response.status_code = "401"
    /\ au_last.response.detail = "Invalid token type"

\* ------------------------------------------------------------------------
\* C22.  Within one call of ingest the stages come in the order parse,
\* chunk, extract (chunk by chunk), embed, vector upsert, graph stage: a
\* call moves only from a stage to the next one or to its end, a call that
\* ends outside the graph stage ends failed with the exception of the stage
\* it was in and writes nothing in that step, a call that has ended does
\* nothing more, the vector index changes only in the upsert stage of some
\* call and the graph only in the graph stage of some call.
\* ------------------------------------------------------------------------
\* the exceptions a call can end with when it leaves from a stage
StageErrors(label) ==
    CASE label = "waiting" -> {"parse", "chunk"}
      [] label = "extract" -> {"extract"}
      [] label = "embed" -> {"embed"}
      [] label \in {"get_collections", "create_collection", "upsert"} -> {"upsert"}
      [] label = "graph" -> {"none", "ensure_schema", "create_entity", "link", "log"}
      [] OTHER -> {}

\* where a call can be after one more step
StageStep(i) ==
    \/ pc'[i] = pc[i] /\ locals'[i] = locals[i]
    \/ /\ pc[i] = "waiting"
       /\ \/ pc'[i] = "extract" /\ locals'[i].chunks # << >> /\ locals'[i].idx = 1
          \/ pc'[i] = "embed" /\ locals'[i].chunks = << >>
          \/ pc'[i] = "hung"
    \/ /\ pc[i] = "extract"
       /\ locals'[i].idx = locals[i].idx + 1
       /\ locals'[i].chunks = locals[i].chunks
       /\ pc'[i] = IF locals[i].idx = Len(locals[i].chunks) THEN "embed" ELSE "extract"
    \/ /\ pc[i] = "embed"
       /\ pc'[i] = IF locals[i].chunks = << >> THEN "graph" ELSE "get_collections"
       /\ Len(locals'[i].chunk_embeddings) = Len(locals[i].chunks)
    \/ pc[i] = "get_collections" /\ pc'[i] \in {"create_collection", "upsert"}
    \/ pc[i] = "create_collection" /\ pc'[i] = "upsert"
    \/ pc[i] = "upsert" /\ pc'[i] = "graph"
    \/ /\ pc[i] \notin {"done", "hung"}
       /\ pc'[i] = "done"
       /\ locals'[i].e.stage \in StageErrors(pc[i])
       /\ outcome'[i].value.status = IF locals'[i].e = NoExc THEN "indexed" ELSE "failed"
       /\ pc[i] # "graph" => UNCHANGED db_vars
       /\ locals'[i].e.stage = "ensure_schema" => UNCHANGED db_vars
       /\ locals'[i].e.stage = "link" => graphs' # graphs

C22_StageOrder ==
    [][/\ \A i \in Calls : StageStep(i)
       /\ collections' # collections =>
             \E i \in Calls : pc[i] \in {"create_collection", "upsert"} /\ pc'[i] # pc[i]
       /\ graphs' # graphs =>
             \E i \in Calls : pc[i] = "graph" /\ pc'[i] = "done"]_vars

\* one call failed in the embed stage before any write, another one went
\* through every stage
W_C22 ==
    /\ \E i \in Calls :
          /\ pc[i] = "done"
          /\ locals[i].e.stage = "embed"
          /\ ~locals[i].upserted
          /\ outcome[i].value.status = "failed"
    /\ \E j \in Calls : pc[j] = "done" /\ outcome[j].value.status = "indexed"

\* ------------------------------------------------------------------------
\* C23.  For a chat document above max_tokens, no chunk that chunk returns
\* is a whole sentence of the body with more than max_tokens estimated
\* tokens, and the chunks hold the words of the body, all of them and in
\* order.
\* ------------------------------------------------------------------------
SentencesOf(text) == {SplitSentences(text)[k] : k \in 1..Len(SplitSentences(text))}

ChunkContents == [k \in 1..Len(ck_chunks) |-> ck_chunks[k].content]

OversizedChat ==
    /\ ck_pc = "returned"
    /\ ck_document.source \in ChatSources
    /\ EstimateTokens(ck_parsed.body) > EffectiveConfig.max_tokens

NoSentenceWhole ==
    \A k \in 1..Len(ck_chunks) :
        ~(/\ ck_chunks[k].content \in SentencesOf(ck_parsed.body)
          /\ EstimateTokens(ck_chunks[k].content) > EffectiveConfig.max_tokens)

NoTextDropped == Words(Join(ChunkContents, <<SP>>)) = Words(ck_parsed.body)

ZeroChunks(i) == pc[i] \in {"embed", "graph"} /\ locals[i].chunks = << >>

C24_ZeroChunksFail ==
    [][\A i \in Calls :
          (ZeroChunks(i) /\ pc'[i] # pc[i]) =>
              /\ locals[i].all_entities = << >>
              /\ ~locals[i].upserted
              /\ UNCHANGED db_vars
              /\ pc'[i] \in {"graph", "done"}
              /\ pc'[i] = "done" =>
                    /\ ~outcome'[i].raises
                    /\ outcome'[i].value.status = "failed"
                    /\ outcome'[i].value.error_message # None
                    /\ outcome'[i].value.chunk_ids = << >>]_vars

\* a call that got no chunk went through the embed and graph stages and
\* ended failed at the log call, with nothing in either store
W_C24 ==
    /\ \E i \in Calls :
          /\ pc[i] = "done"
          /\ locals[i].e.stage = "log"
          /\ outcome[i].value.status = "failed"
    /\ collections = << >>
    /\ graphs = << >>

\* ------------------------------------------------------------------------
\* C25.  No rollback: when a call of ingest whose vector upsert went
\* through ends at ensure_schema, create_entity or link, its record has
\* status failed and empty chunk_ids and entity_ids, the points of its
\* chunks stay in the tenant's collection, and what the graph stage wrote
\* before the failure stays in the graph (after a failed link the entity
\* of that link is a node); no step of any call takes a point, a node or a
\* link away.
\* ------------------------------------------------------------------------
PointIds(colls, name) == IF name \in DOMAIN colls THEN {p.id : p \in colls[name]} ELSE {}

NodeKeys(gs, name) ==
    IF name \in DOMAIN gs THEN {<<n.name, n.type>> : n \in gs[name].nodes} ELSE {}

LinkKeys(gs, name) ==
    IF name \in DOMAIN gs
    THEN {<<l.name, l.type, l.document_id>> : l \in gs[name].links}
    ELSE {}

NothingDeleted ==
    /\ \A name \in DOMAIN collections : PointIds(collections, name) \subseteq PointIds(collections', name)
    /\ \A name \in DOMAIN graphs :
          /\ NodeKeys(graphs, name) \subseteq NodeKeys(graphs', name)
          /\ LinkKeys(graphs, name) \subseteq LinkKeys(graphs', name)

FailsInGraphStage(i) ==
    /\ pc[i] = "graph"
    /\ pc'[i] = "done"
    /\ locals[i].upserted
    /\ locals'[i].e.stage \in {"ensure_schema", "create_entity", "link"}

C25_NoRollback ==
    [][/\ NothingDeleted
       /\ \A i \in Calls :
             FailsInGraphStage(i) =>
                 /\ outcome'[i].value.status = "failed"
                 /\ outcome'[i].value.chunk_ids = << >>
                 /\ outcome'[i].value.entity_ids = << >>
                 /\ collections' = collections
                 /\ \A k \in 1..Len(locals[i].chunks) :
                       locals[i].chunks[k].id
                           \in PointIds(collections', CollectionName(documents[i].tenant_id))
                 /\ locals'[i].e.stage = "link" =>
                       /\ graphs' # graphs
                       /\ \E k \in 1..Len(locals[i].all_entities) :
                             <<locals[i].all_entities[k].name, locals[i].all_entities[k].type>>
                                 \in NodeKeys(graphs', GraphName(documents[i].tenant_id))]_vars

\* a call failed at a link after its upsert: its record is failed, its
\* points and the entity created before the link are stored
W_C25 ==
    \E i \in Calls :
        /\ pc[i] = "done"
        /\ locals[i].e.stage = "link"
        /\ locals[i].upserted
        /\ outcome[i].value.status = "failed"
        /\ \E p \in collections[CollectionName(documents[i].tenant_id)] :
              p.document_id = documents[i].id
        /\ NodeKeys(graphs, GraphName(documents[i].tenant_id)) # {}

\* ------------------------------------------------------------------------
\* C26.  When include_graph is set, every entity of the QueryResult
\* belongs to the queried tenant and is linked by a mentioned-in edge to
\* the document of at least one returned source, and no entity id is
\* listed twice.
\* ------------------------------------------------------------------------
SourceDocuments == {q_result.sources[j].document_id : j \in 1..Len(q_result.sources)}

C26_GraphEntitiesRelated ==
    (q_pc = "returned" /\ q_args.include_graph) =>
        /\ \A k \in 1..Len(q_result.entities) :
              /\ q_result.entities[k].written_under = q_args.tenant_id
              /\ GetEntityDocuments(graphs, q_args.tenant_id, q_result.entities[k].id)
                     \cap SourceDocuments # {}
        /\ \A k, l \in 1..Len(q_result.entities) :
              q_result.entities[k].id = q_result.entities[l].id => k = l

\* ------------------------------------------------------------------------
\* C27.  Under every configuration with max_tokens >= 1 and
\* 0 <= overlap_tokens < max_tokens the word-window splitter returns: a
\* run of the chunker never stays in its loop, and on the parsed text the
\* loop ends with a first window that starts at the first word and a last
\* window that ends at the last word.
\* ------------------------------------------------------------------------
AdmissibleConfig ==
    /\ EffectiveConfig.max_tokens >= 1
    /\ 0 <= EffectiveConfig.overlap_tokens
    /\ EffectiveConfig.overlap_tokens < EffectiveConfig.max_tokens

WindowsOfParsed ==
    SplitLongText(ck_parsed.body, EffectiveConfig.max_tokens, EffectiveConfig.overlap_tokens)

WindowsSpanText ==
    LET words == Words(ck_parsed.body)
        segs == WindowsOfParsed.segs
    IN words # <<>> =>
          /\ segs # <<>>
          /\ Words(segs[1])[1] = words[1]
          /\ LET last == Words(segs[Len(segs)])
             IN last # <<>> /\ last[Len(last)] = words[Len(words)]

C27_SplitterTerminates ==
    (ChunkCallEnded /\ AdmissibleConfig) =>
        /\ ck_pc = "returned"
        /\ ~WindowsOfParsed.diverges
        /\ WindowsSpanText

\* ------------------------------------------------------------------------
\* C28.  When a call of ingest has returned a record with status indexed,
\* the graph of the document's tenant holds, for every id in the record's
\* entity_ids, an Entity node with that id that has a MENTIONED_IN edge to
\* the document: get_entity_documents(id) contains the document id.
\* ------------------------------------------------------------------------
IndexedCalls ==
    {i \in Calls : pc[i] = "done" /\ ~outcome[i].raises /\ outcome[i].value.status = "indexed"}

LinkedToDocument(i, entity_id) ==
    /\ \E n \in GetGraph(graphs, documents[i].tenant_id).nodes : n.id = entity_id
    /\ documents[i].id \in GetEntityDocuments(graphs, documents[i].tenant_id, entity_id)

C28_IndexedEntitiesLinked ==
    \A i \in IndexedCalls :
        \A k \in 1..Len(outcome[i].value.entity_ids) :
            LinkedToDocument(i, outcome[i].value.entity_ids[k])

\* ------------------------------------------------------------------------
\* C29.  When several calls of ingest upsert into a tenant whose
\* collection does not exist yet, no call fails because another call
\* created the collection between its get_collections and its
\* create_collection: no call ends with the server's refusal to create a
\* collection that exists.
\* ------------------------------------------------------------------------
RefusedCreate(i) ==
    /\ pc[i] = "done"
    /\ ~outcome[i].raises
    /\ outcome[i].value.status = "failed"
    /\ outcome[i].value.error_message = "collection already exists"

C29_ConcurrentFirstWrites ==
    \A i \in Calls : ~RefusedCreate(i)

\* ------------------------------------------------------------------------
\* ingest_batch on an event loop that runs every task that can go on, with
\* every awaited call returning or failing in the end
\* ------------------------------------------------------------------------
SpecFair == Spec /\ WF_vars(Next)

\* ------------------------------------------------------------------------
\* C30.  On such an event loop ingest_batch returns in the end, with a
\* record of status indexed or failed for every document and with every
\* permit given back.
\* ------------------------------------------------------------------------
BatchReturned ==
    /\ batch_pc = "returned"
    /\ Len(results) = Len(documents)
    /\ \A i \in 1..Len(results) : results[i].status \in {"indexed", "failed"}
    /\ semaphore = max_concurrent

C30_BatchProgress == <>BatchReturned

====
